---- MODULE Spec2Model ----
(***************************************************************************)
(* Donation lifecycle of GDG-Medan/donation: the donations table, the      *)
(* submission handlers (functions/routes/donations.js and the single-file  *)
(* functions/api/[[path]].js), the Midtrans webhook and the statistics     *)
(* query.  Every awaited database statement or fetch is one step, so that  *)
(* requests interleave exactly where the JavaScript handlers yield.        *)
(***************************************************************************)
EXTENDS Integers, Sequences, FiniteSets, TLC

\* ------------------------------------------------------------------ bounds
MaxDonations == 2
MaxTime == 1
FeeSamples == 60
MaxSessions == 1
MaxClockSteps == 9
ClockStepHours == 6

\* --------------------------------------------------------------- constants
MinDonationAmount == 10000
MaxDonationAmount == 1000000000
MaxEmailLength == 254

VARIABLES
  donations,      \* table donations: sequence of rows, row i has id i
  disbursements,  \* table disbursements: sequence of rows
  inflight,       \* submissions between two awaits: donation id -> locals
  gatewayCalls,   \* requests sent to the Midtrans Snap API, in order
  now,            \* Date.now()
  stats,          \* the GET /api/stats request in progress, if any
  last,           \* the step just taken: operation, handler, response status
  admin_sessions,           \* table admin_sessions
  disbursement_activities,  \* table disbursement_activities
  activity_files,           \* table activity_files
  bucket,                   \* R2 bucket ACTIVITY_FILES: the object keys stored
  env                       \* environment bindings of the deployment

\* The state only the admin routes touch.
adminVars ==
  <<admin_sessions, disbursement_activities, activity_files, bucket, env>>

vars ==
  <<donations, disbursements, inflight, gatewayCalls, now, stats, last,
    adminVars>>

\* SQL NULL / JavaScript undefined for a text value.
NULL == <<>>

\* ------------------------------------------------------------ order ids
DigitChar(d) == <<"0", "1", "2", "3", "4", "5", "6", "7", "8", "9">>[d + 1]

RECURSIVE ToDecimal(_)
\* String(n) for a non-negative integer, as a sequence of digit characters.
ToDecimal(n) ==
  IF n < 10 THEN <<DigitChar(n)>>
  ELSE Append(ToDecimal(n \div 10), DigitChar(n % 10))

\* `DONATION-${donationId}-${Date.now()}`
\* Mutant: the order id is built from the clock alone.
OrderIdOf_clockOnly(donationId, t) == <<"DONATION-">> \o ToDecimal(t)

OrderIdOf(donationId, t) ==
  <<"DONATION-">> \o ToDecimal(donationId) \o <<"-">> \o ToDecimal(t)

\* An order id the gateway knows but this database never issued.
ForeignOrderId == <<"ORDER-">> \o ToDecimal(7)

\* ------------------------------------------------- IEEE-754 double arithmetic
\* Math.ceil(donationAmount * 0.007) is evaluated in binary64.  The literal
\* 0.007 is the double 0x1.cac083126e979p-8, that is Mant007 * 2^-60 with the
\* 53-bit significand below; the product is rounded to 53 significant bits
\* (round half to even) before Math.ceil sees it.  Wide integers are kept as
\* little-endian limbs of LimbBits bits so that no intermediate value leaves
\* the 32-bit range.
LimbBits == 14
LimbBase == 2 ^ LimbBits
AmountLimbs == 3
SignificandLimbs == 4
ProductLimbs == AmountLimbs + SignificandLimbs
ProductBits == ProductLimbs * LimbBits
\* binary64 keeps 53 significant bits; 0.007 = significand * 2^-60.
SignificandBits == 53
Exp007 == 60

\* Hexadecimal digits of the significand 0x01CAC083126E979, most significant
\* first, padded to 56 bits.
Mant007Hex == <<1, 12, 10, 12, 0, 8, 3, 1, 2, 6, 14, 9, 7, 9>>

\* Bit p (0 = least significant) of the significand of 0.007.
Mant007Bit(p) ==
  LET h == Mant007Hex[14 - (p \div 4)]
  IN  (h \div (2 ^ (p % 4))) % 2

\* Limb j (0 = least significant) of the significand of 0.007.
Mant007Limb(j) ==
  LET RECURSIVE Acc(_)
      Acc(k) == IF k = LimbBits THEN 0
                ELSE Mant007Bit(LimbBits * j + k) * (2 ^ k) + Acc(k + 1)
  IN  Acc(0)

\* Limb i (0 = least significant) of a non-negative integer below 2^31.
IntLimb(a, i) ==
  IF i = 0 THEN a % LimbBase
  ELSE IF i = 1 THEN (a \div LimbBase) % LimbBase
  ELSE IF i = 2 THEN a \div (LimbBase * LimbBase)
  ELSE 0

\* A function on 1..n as a tuple (evaluated once, element by element).
Tuple(f) == SubSeq(f, 1, Len(f))

\* The exact product a * Mant007 as ProductLimbs limbs, least significant
\* first (schoolbook columns).
ExactProduct(a) ==
  LET Column(k) ==
        LET RECURSIVE Sum(_)
            Sum(i) == IF i >= AmountLimbs THEN 0
                      ELSE (IF k - i >= 0 /\ k - i < SignificandLimbs
                              THEN IntLimb(a, i) * Mant007Limb(k - i) ELSE 0)
                           + Sum(i + 1)
        IN  Sum(0)
      RECURSIVE Carry(_)
      \* carry into column k
      Carry(k) == IF k = 0 THEN 0
                  ELSE (Column(k - 1) + Carry(k - 1)) \div LimbBase
  IN  Tuple([k \in 1..ProductLimbs |-> (Column(k - 1) + Carry(k - 1)) % LimbBase])

\* Bit p (1 = least significant) of a limb vector.
LimbsBit(P, p) ==
  (P[((p - 1) \div LimbBits) + 1] \div (2 ^ ((p - 1) % LimbBits))) % 2

\* The index of the most significant 1 bit (0 if there is none).
BitLength(bit) ==
  LET RECURSIVE Scan(_)
      Scan(p) == IF p = 0 \/ bit[p] = 1 THEN p ELSE Scan(p - 1)
  IN  Scan(ProductBits)

\* The least index above s that holds a 0 bit: where an increment at bit
\* s + 1 stops carrying.
CarryStop(bit, s) ==
  LET RECURSIVE Scan(_)
      Scan(p) == IF p > ProductBits \/ bit[p] = 0 THEN p ELSE Scan(p + 1)
  IN  Scan(s + 1)

\* bit with its s low bits cleared and one unit added at bit s + 1.
RoundUp(bit, s, stop) ==
  Tuple([p \in 1..ProductBits |->
     IF p <= s THEN 0 ELSE IF p < stop THEN 0 ELSE IF p = stop THEN 1 ELSE bit[p]])

\* bit with its s low bits cleared.
RoundDown(bit, s) ==
  Tuple([p \in 1..ProductBits |-> IF p <= s THEN 0 ELSE bit[p]])

\* Drop the s low bits of bit, rounding half to even.
RoundAt(bit, s) ==
  LET guard == s >= 1 /\ bit[s] = 1
      sticky == \E p \in 1..(s - 1) : bit[p] = 1
      odd == s >= 0 /\ bit[s + 1] = 1
  IN  IF guard /\ (sticky \/ odd)
        THEN RoundUp(bit, s, CarryStop(bit, s))
        ELSE RoundDown(bit, s)

\* Round a bit vector to SignificandBits significant bits.
RoundToDouble(bit) == RoundAt(bit, BitLength(bit) - SignificandBits)

\* The bits (1 = least significant) of a limb vector.
BitsOf(P) == Tuple([p \in 1..ProductBits |-> LimbsBit(P, p)])

\* a * 0.007 as a double: the bits (1 = least significant, weight 2^-60) of
\* the exact product rounded to 53 significant bits, ties to even.
DoubleTimes007(a) == RoundToDouble(BitsOf(ExactProduct(a)))

\* Math.floor of a double given by its bits of weight 2^(p - 61).
MathFloor(bits) ==
  LET RECURSIVE Acc(_)
      Acc(p) == IF p > ProductBits THEN 0
                ELSE (IF bits[p] = 1 THEN 2 ^ (p - Exp007 - 1) ELSE 0) + Acc(p + 1)
  IN  Acc(Exp007 + 1)

\* Mutant: the fee is rounded down.
MathCeil_roundsDown(bits) == MathFloor(bits)

\* Math.ceil of a double given by its bits of weight 2^(p - 61).
MathCeil(bits) ==
  MathFloor(bits) + (IF \E p \in 1..Exp007 : bits[p] = 1 THEN 1 ELSE 0)

\* const fee = Math.ceil(donationAmount * 0.007);
Fee(donationAmount) == MathCeil(DoubleTimes007(donationAmount))

\* const totalAmount = donationAmount + fee;
TotalAmount(donationAmount) == donationAmount + Fee(donationAmount)

\* Amounts whose fee is computed: the two ends of the accepted range, the
\* amounts the lifecycle submits, amounts spread over the range, and multiples
\* of 1000 (where 7a/1000 is an integer and any rounding excess of the double
\* product would raise the ceiling by one).
FeeAmounts ==
  {MinDonationAmount, 999999, MaxDonationAmount}
    \cup {MinDonationAmount + k * 16231327 : k \in 0..FeeSamples}
    \cup {1000 * (10 + 16000 * k) : k \in 0..FeeSamples}

\* Memo of Fee over the amounts the model submits (evaluated once).
FeeOf == [a \in FeeAmounts |-> Fee(a)]

\* ------------------------------------------------------------ request data
\* A JSON value of the amount field: a number, a string or absent.
Num(n) == [type |-> "number", value |-> n]
NotANumber == [type |-> "string", value |-> 0]
Undefined == [type |-> "undefined", value |-> 0]

\* A character sequence for a JavaScript string.
Chars(n, c) == [i \in 1..n |-> c]
GoodEmail == <<"a", "@", "b", ".", "i", "d">>
BadEmail == <<"a", ".", "b", "@">>
LongEmail == Chars(MaxEmailLength - 4, "a") \o <<"@", "b", ".", "i", "d">>
GoodPhone == <<"0", "8", "1", "2", "-", "3", "4", "5", "6", "-", "7", "8", "9", "0">>
GoodPhone62 == <<"+", "6", "2", "8", "1", "2", "3", "4", "5", "6", "7", "8", "9">>
BadPhone == <<"0", "2", "1", "5", "5", "5", "0", "1", "0", "0">>

Body(name, email, phone, amount, anonymous) ==
  [name |-> name, email |-> email, phone |-> phone, amount |-> amount,
   anonymous |-> anonymous]

\* Bodies that pass every check of either handleCreateDonation.
ValidBodies ==
  { Body("Ann", GoodEmail, NULL, Num(MinDonationAmount), FALSE),
    Body("Budi", GoodEmail, GoodPhone, Num(999999), TRUE) }

\* Bodies that break exactly one rule.
InvalidBodies ==
  { Body("", GoodEmail, NULL, Num(MinDonationAmount), FALSE),
    Body("Ann", NULL, NULL, Num(MinDonationAmount), FALSE),
    Body("Ann", GoodEmail, NULL, Undefined, FALSE),
    Body("Ann", GoodEmail, NULL, Num(0), FALSE),
    Body("Ann", BadEmail, NULL, Num(MinDonationAmount), FALSE),
    Body("Ann", LongEmail, NULL, Num(MinDonationAmount), FALSE),
    Body("Ann", GoodEmail, BadPhone, Num(MinDonationAmount), FALSE),
    Body("Ann", GoodEmail, NULL, NotANumber, FALSE),
    Body("Ann", GoodEmail, NULL, Num(MinDonationAmount - 1), FALSE),
    Body("Ann", GoodEmail, NULL, Num(MaxDonationAmount + 1), FALSE) }

Bodies == ValidBodies \cup InvalidBodies

\* What the single-file handler is sent: number amounts, well-formed text.
LegacyBodies ==
  ValidBodies \cup
  { Body("", GoodEmail, NULL, Num(MinDonationAmount), FALSE),
    Body("Ann", NULL, NULL, Num(MinDonationAmount), FALSE),
    Body("Ann", GoodEmail, NULL, Undefined, FALSE),
    Body("Ann", GoodEmail, NULL, Num(MinDonationAmount - 1), FALSE) }

TransactionStatuses ==
  {"capture", "settlement", "cancel", "deny", "expire", "pending"}
FraudStatuses == {"accept", "challenge", "absent"}
OrderIds ==
  {OrderIdOf(i, t) : i \in 1..MaxDonations, t \in 0..MaxTime}
    \cup {ForeignOrderId, NULL}

Notifications ==
  [order_id : OrderIds, transaction_status : TransactionStatuses,
   fraud_status : FraudStatuses]

\* A request body that JSON.parse rejects.
Malformed == [malformed |-> TRUE]

\* ------------------------------------------------------------------- SQL
\* Mutant: the UPDATE without its WHERE clause.
UpdateStatusByOrderId_noWhere(rows, status, orderId) ==
  [i \in DOMAIN rows |-> [rows[i] EXCEPT !.status = status]]

\* Mutant: a row that already has the status is put back to pending, as if a
\* repeated delivery were a reversal.
UpdateStatusByOrderId_reverses(rows, status, orderId) ==
  [i \in DOMAIN rows |->
     IF rows[i].midtrans_order_id # NULL /\ orderId # NULL
          /\ rows[i].midtrans_order_id = orderId
       THEN [rows[i] EXCEPT !.status = IF @ = status THEN "pending" ELSE status]
       ELSE rows[i]]

\* Mutant: the WHERE clause also selects the rows without an order id.
UpdateStatusByOrderId_orNull(rows, status, orderId) ==
  [i \in DOMAIN rows |->
     IF orderId # NULL /\ rows[i].midtrans_order_id \in {NULL, orderId}
       THEN [rows[i] EXCEPT !.status = status]
       ELSE rows[i]]

\* UPDATE donations SET status = ? WHERE midtrans_order_id = ?
\* (a NULL on either side of = selects nothing)
UpdateStatusByOrderId(rows, status, orderId) ==
  [i \in DOMAIN rows |->
     IF rows[i].midtrans_order_id # NULL /\ orderId # NULL
          /\ rows[i].midtrans_order_id = orderId
       THEN [rows[i] EXCEPT !.status = status]
       ELSE rows[i]]

\* UPDATE donations SET status = ? WHERE id = ?
UpdateStatusById(rows, status, id) ==
  [i \in DOMAIN rows |->
     IF rows[i].id = id THEN [rows[i] EXCEPT !.status = status] ELSE rows[i]]

\* UPDATE donations SET midtrans_order_id = ? WHERE id = ?
UpdateOrderIdById(rows, orderId, id) ==
  [i \in DOMAIN rows |->
     IF rows[i].id = id THEN [rows[i] EXCEPT !.midtrans_order_id = orderId]
     ELSE rows[i]]

\* INSERT INTO donations (name, email, phone, amount, message, anonymous,
\* status) VALUES (...): id is AUTOINCREMENT, midtrans_order_id defaults NULL.
InsertDonation(rows, name, email, phone, amount, anonymous, status) ==
  Append(rows,
    [id |-> Len(rows) + 1, name |-> name, email |-> email, phone |-> phone,
     amount |-> amount, anonymous |-> IF anonymous THEN 1 ELSE 0,
     status |-> status, midtrans_order_id |-> NULL])

RECURSIVE SumAmount(_, _)
\* SELECT COALESCE(SUM(amount), 0) FROM donations WHERE status = ?
SumAmount(rows, status) ==
  IF rows = <<>> THEN 0
  ELSE (IF Head(rows).status = status THEN Head(rows).amount ELSE 0)
       + SumAmount(Tail(rows), status)

\* Mutant: the COUNT without its WHERE clause.
CountStatus_allRows(rows, status) == Len(rows)

\* SELECT COUNT(*) FROM donations WHERE status = ?
CountStatus(rows, status) ==
  Cardinality({i \in DOMAIN rows : rows[i].status = status})

DecimalDigits == <<"0", "1", "2", "3", "4", "5", "6", "7", "8", "9">>
IsDigit(c) == \E d \in DOMAIN DecimalDigits : DecimalDigits[d] = c
DigitValue(c) == (CHOOSE d \in DOMAIN DecimalDigits : DecimalDigits[d] = c) - 1

RECURSIVE ParseDigits(_, _)
\* The value of the longest prefix of digits of s, after the digits read.
ParseDigits(s, acc) ==
  IF s = <<>> \/ ~IsDigit(Head(s)) THEN acc
  ELSE ParseDigits(Tail(s), 10 * acc + DigitValue(Head(s)))

\* The number an aggregate takes a stored value for.  A text bound to the
\* INTEGER column that is no numeral stays a text, and SUM reads the longest
\* numeric prefix of a text: an optional sign and digits, 0 without digits.
SqlNumber(v) ==
  IF v.type = "number" THEN v.value
  ELSE IF v.type # "text" \/ v.value = <<>> THEN 0
  ELSE IF Head(v.value) = "-" THEN 0 - ParseDigits(Tail(v.value), 0)
  ELSE IF Head(v.value) = "+" THEN ParseDigits(Tail(v.value), 0)
  ELSE ParseDigits(v.value, 0)

RECURSIVE SumDisbursed(_)
\* SELECT COALESCE(SUM(amount), 0) FROM disbursements
SumDisbursed(rows) ==
  IF rows = <<>> THEN 0
  ELSE SqlNumber(Head(rows).amount) + SumDisbursed(Tail(rows))

\* ----------------------------------------------------------- responses
\* log is the message the handler gave the logger, "none" when it gave none.
\* request is the body of a POST /api/donations that was answered at once;
\* error is the exception a catch block received, "none" when none was thrown.
Response(op, impl, status) ==
  [op |-> op, impl |-> impl, status |-> status, log |-> "none",
   request |-> NULL, error |-> "none", body |-> NULL, headers |-> NULL]
Await(op, impl) == Response(op, impl, 0)
Logged(response, message) == [response EXCEPT !.log = message]
Answering(response, body) == [response EXCEPT !.request = body]
Catching(response, error) == [response EXCEPT !.error = error]
Json(response, body) == [response EXCEPT !.body = body]

\* createErrorResponse: the JSON body { error, message } with the status.
ErrorResponse(op, impl, code, message, status) ==
  Json(Response(op, impl, status), [error |-> code, message |-> message])

PostDonations == "POST /api/donations"
PostNotification == "POST /api/midtrans/notification"
GetStats == "GET /api/stats"

StatsIdle ==
  [pc |-> "idle", total_raised |-> 0, total_disbursed |-> 0, donor_count |-> 0]

\* ------------------------------------------------------------ environment
\* A JSON or environment string value.
Str(v) == [type |-> "string", value |-> v]

\* a === b for two tagged values.
StrictEquals(a, b) ==
  a.type = b.type /\ (a.type = "undefined" \/ a.value = b.value)

\* The admin password of the deployment.
Secret == Str("s3cret")

\* Both bindings set, as the README asks.
Configured == [ADMIN_PASSWORD_HASH |-> Secret, ACTIVITY_FILES |-> TRUE]

\* ADMIN_PASSWORD_HASH not set: validateEnvVars reports it and onRequest
\* serves the request all the same.
Unconfigured == [ADMIN_PASSWORD_HASH |-> Undefined, ACTIVITY_FILES |-> TRUE]

\* ---------------------------------------------------------------- Init
Init ==
  /\ donations = <<>>
  /\ disbursements = <<>>
  /\ inflight = {}
  /\ gatewayCalls = <<>>
  /\ now = 0
  /\ stats = StatsIdle
  /\ last = Response("deploy", "none", 0)
  /\ admin_sessions = <<>>
  /\ disbursement_activities = <<>>
  /\ activity_files = <<>>
  /\ bucket = {}
  /\ env = Configured

\* The clock advances between any two steps.
Tick ==
  /\ now < MaxTime
  /\ now' = now + 1
  /\ last' = Await("clock", "none")
  /\ UNCHANGED <<adminVars, donations, disbursements, inflight, gatewayCalls, stats>>


\* !v for a JSON value of the amount field.
Falsy(v) == v.type = "undefined" \/ (v.type = "number" /\ v.value = 0)

\* v < k: a string that is no numeral compares as NaN, which is never less.
LessThan(v, k) == v.type = "number" /\ v.value < k

\* ----------------------------------------- functions/utils/validation.js
Letters ==
  {"a", "b", "c", "d", "e", "f", "g", "h", "i", "j", "k", "l", "m", "n", "o",
   "p", "q", "r", "s", "t", "u", "v", "w", "x", "y", "z",
   "A", "B", "C", "D", "E", "F", "G", "H", "I", "J", "K", "L", "M", "N", "O",
   "P", "Q", "R", "S", "T", "U", "V", "W", "X", "Y", "Z"}
Digits == {"0", "1", "2", "3", "4", "5", "6", "7", "8", "9"}
\* [a-zA-Z0-9]
Alnum == Letters \cup Digits
\* The local-part class of the e-mail pattern: letters, digits and
\* . ! # $ % & ' * + / = ? ^ _ { | } ~ - and the grave accent (named here,
\* since a TLA+ string cannot hold it).
LocalChars ==
  Alnum \cup {".", "!", "#", "$", "%", "&", "'", "*", "+", "/", "=", "?", "^",
              "_", "grave", "{", "|", "}", "~", "-"}

\* The least index of c in str, or Len(str) + 1.
IndexOf(str, c) ==
  LET hits == {k \in 1..Len(str) : str[k] = c}
  IN  IF hits = {} THEN Len(str) + 1
      ELSE CHOOSE k \in hits : \A j \in hits : k <= j

\* [a-zA-Z0-9](?:[a-zA-Z0-9-]{0,61}[a-zA-Z0-9])?
DomainLabel(l) ==
  /\ Len(l) >= 1
  /\ Len(l) <= 63
  /\ l[1] \in Alnum
  /\ l[Len(l)] \in Alnum
  /\ \A k \in 1..Len(l) : l[k] \in Alnum \cup {"-"}

RECURSIVE DomainLabels(_)
\* label(?:\.label)*
DomainLabels(d) ==
  LET k == IndexOf(d, ".")
  IN  /\ DomainLabel(SubSeq(d, 1, k - 1))
      /\ (k > Len(d) \/ DomainLabels(SubSeq(d, k + 1, Len(d))))

\* isValidEmail: a non-empty string of at most 254 characters that matches
\* local-part@label(.label)*.
isValidEmail(email) ==
  LET at == IndexOf(email, "@")
  IN  /\ email # NULL
      /\ Len(email) <= MaxEmailLength
      /\ at > 1
      /\ at <= Len(email)
      /\ \A k \in 1..(at - 1) : email[k] \in LocalChars
      /\ DomainLabels(SubSeq(email, at + 1, Len(email)))

\* phone.replace(/[\s\-+]/g, "")
CleanPhone(phone) == SelectSeq(phone, LAMBDA c : c \notin {" ", "-", "+"})

\* /^(62|0)[0-9]{9,12}$/
PhoneRegex(c) ==
  /\ \A k \in 1..Len(c) : c[k] \in Digits
  /\ \/ Len(c) >= 2 /\ c[1] = "6" /\ c[2] = "2" /\ Len(c) - 2 \in 9..12
     \/ Len(c) >= 1 /\ c[1] = "0" /\ Len(c) - 1 \in 9..12

\* isValidPhone: digits after cleaning, 62 or 0 first, then the mobile 8.
isValidPhone(phone) ==
  LET c == CleanPhone(phone)
  IN  /\ phone # NULL
      /\ PhoneRegex(c)
      /\ (c[1] = "6" /\ c[2] = "2" /\ Len(c) >= 3) => c[3] = "8"
      /\ (c[1] = "0" /\ Len(c) >= 2) => c[2] = "8"

\* isValidDonationAmount: a number, not NaN, in [10000, 1000000000].
isValidDonationAmount(amount) ==
  /\ amount.type = "number"
  /\ amount.value >= MinDonationAmount
  /\ amount.value <= MaxDonationAmount

\* --------------------------------------------------------------- sanitizers
MaxHtmlLength == 5000
MaxTextLength == 255

\* The first k characters of s (String.prototype.substring(0, k)).
Substring(s, k) == SubSeq(s, 1, IF Len(s) < k THEN Len(s) ELSE k)

Whitespace == {" ", "\n", "\t", "\r", "\f"}

RECURSIVE TrimStart(_)
TrimStart(s) ==
  IF s # <<>> /\ Head(s) \in Whitespace THEN TrimStart(Tail(s)) ELSE s

RECURSIVE TrimEnd(_)
TrimEnd(s) ==
  IF s # <<>> /\ s[Len(s)] \in Whitespace
    THEN TrimEnd(SubSeq(s, 1, Len(s) - 1))
  ELSE s

\* String.prototype.trim()
Trim(s) == TrimEnd(TrimStart(s))

RECURSIVE StripTags(_)
\* input.replace(/<[^>]*>/g, ""): every "<" up to the next ">" is removed.
StripTags(s) ==
  IF s = <<>> THEN <<>>
  ELSE IF Head(s) = "<" /\ \E k \in 2..Len(s) : s[k] = ">"
    THEN StripTags(SubSeq(s, 1 + (CHOOSE k \in 2..Len(s) :
                                  /\ s[k] = ">"
                                  /\ \A j \in 2..(k - 1) : s[j] # ">"),
                          Len(s)))
  ELSE <<Head(s)>> \o StripTags(Tail(s))

\* htmlEscapes
HtmlEscape(c) ==
  CASE c = "&" -> <<"&", "a", "m", "p", ";">>
    [] c = "<" -> <<"&", "l", "t", ";">>
    [] c = ">" -> <<"&", "g", "t", ";">>
    [] c = "\"" -> <<"&", "q", "u", "o", "t", ";">>
    [] c = "'" -> <<"&", "#", "x", "2", "7", ";">>
    [] c = "/" -> <<"&", "#", "x", "2", "F", ";">>
    [] OTHER -> <<c>>

RECURSIVE EscapeAll(_)
\* sanitized.replace(/[&<>"'/]/g, (char) => htmlEscapes[char])
EscapeAll(s) ==
  IF s = <<>> THEN <<>> ELSE HtmlEscape(Head(s)) \o EscapeAll(Tail(s))

\* sanitizeHtml: "" for a value that is no non-empty string; else tags
\* removed, special characters escaped, cut to 5000 characters, trimmed.
sanitizeHtml(input) ==
  IF input = NULL THEN <<>>
  ELSE Trim(Substring(EscapeAll(StripTags(input)), MaxHtmlLength))

\* The control characters sanitizeText removes (of the characters used).
ControlChars == {"\f"}

\* sanitizeText: control characters removed, cut to maxLength, trimmed.
sanitizeText(input, maxLength) ==
  IF input = NULL THEN <<>>
  ELSE Trim(Substring(SelectSeq(input, LAMBDA c : c \notin ControlChars),
                      maxLength))

\* ------------------------------------------- functions/routes/donations.js
\* Mutant: no check at all, the row is inserted and the gateway is called.
handleCreateDonation_inserts(body) ==
  /\ Len(donations) < MaxDonations
  /\ donations' = InsertDonation(donations, body.name, body.email, body.phone,
                    body.amount.value, body.anonymous, "pending")
  /\ gatewayCalls' = Append(gatewayCalls,
       [order_id |-> OrderIdOf(Len(donations) + 1, now),
        gross_amount |-> body.amount.value])
  /\ last' = Answering(Response(PostDonations, "routes", 200), body)
  /\ UNCHANGED <<adminVars, disbursements, inflight, now, stats>>

\* handleCreateDonation: the handler returns the "donations are closed"
\* validation error as its first statement; the body is never read and
\* nothing below that return runs.
handleCreateDonation(body) ==
  /\ last' = Answering(Response(PostDonations, "routes", 400), body)
  /\ UNCHANGED <<adminVars, donations, disbursements, inflight, gatewayCalls, now, stats>>

\* The checks handleCreateDonation holds behind its first return: a body
\* that any of them turns away.
FailsValidation(body) ==
  \/ body.name = ""
  \/ body.email = NULL
  \/ Falsy(body.amount)
  \/ ~isValidEmail(body.email)
  \/ (body.phone # NULL /\ ~isValidPhone(body.phone))
  \/ ~isValidDonationAmount(body.amount)

\* Mutant: "expire" is missing from the failure branch.
WebhookStatus_expireUnhandled(n) ==
  IF n.fraud_status = "accept"
    THEN IF n.transaction_status \in {"capture", "settlement"} THEN "success"
         ELSE IF n.transaction_status \in {"cancel", "deny"} THEN "failed"
         ELSE "none"
    ELSE "none"

\* Mutant: the fraud_status test is missing.
WebhookStatus_fraudUnchecked(n) ==
  IF n.transaction_status \in {"capture", "settlement"} THEN "success"
  ELSE IF n.transaction_status \in {"cancel", "deny", "expire"} THEN "failed"
  ELSE "none"

\* The status a notification maps to, or "none" when it is ignored.
WebhookStatus(n) ==
  IF n.fraud_status = "accept"
    THEN IF n.transaction_status \in {"capture", "settlement"} THEN "success"
         ELSE IF n.transaction_status \in {"cancel", "deny", "expire"}
           THEN "failed"
         ELSE "none"
    ELSE "none"

\* The donations table after the handler's single UPDATE, if it issues one.
WebhookUpdate(rows, n) ==
  IF WebhookStatus(n) = "none" THEN rows
  ELSE UpdateStatusByOrderId(rows, WebhookStatus(n), n.order_id)

\* What the handler gives the logger: logger.info, logger.warn, or
\* logger.error from the catch block when the body does not parse.
WebhookLog(req) ==
  IF req = Malformed THEN "Midtrans webhook processing failed"
  ELSE IF WebhookStatus(req) = "success" THEN "Payment successful"
  ELSE IF WebhookStatus(req) = "failed" THEN "Payment failed"
  ELSE "none"

\* handleMidtransWebhook: parse, at most one UPDATE, always 200 (the catch
\* block answers 200 as well).
handleMidtransWebhook(req) ==
  /\ donations' = IF req = Malformed THEN donations
                  ELSE WebhookUpdate(donations, req)
  /\ last' = Catching(
       Logged(Response(PostNotification, "routes", 200), WebhookLog(req)),
       IF req = Malformed THEN "SyntaxError" ELSE "none")
  /\ UNCHANGED <<adminVars, disbursements, inflight, gatewayCalls, now, stats>>

\* handleMidtransWebhook when the UPDATE throws: the catch block logs the
\* error and answers 200; no row changes.
handleMidtransWebhook_dbError(req) ==
  /\ req # Malformed
  /\ WebhookStatus(req) # "none"
  /\ last' = Catching(Logged(Response(PostNotification, "routes", 200),
                             "Midtrans webhook processing failed"),
                      "D1_ERROR")
  /\ UNCHANGED <<adminVars, donations, disbursements, inflight, gatewayCalls, now, stats>>

\* handleStats, first query: total raised.
handleStats_totalRaised ==
  /\ stats.pc = "idle"
  /\ stats' = [StatsIdle EXCEPT !.pc = "disbursed",
                 !.total_raised = SumAmount(donations, "success")]
  /\ last' = Await(GetStats, "routes")
  /\ UNCHANGED <<adminVars, donations, disbursements, inflight, gatewayCalls, now>>

\* handleStats, second query: total disbursed.
handleStats_totalDisbursed ==
  /\ stats.pc = "disbursed"
  /\ stats' = [stats EXCEPT !.pc = "count",
                 !.total_disbursed = SumDisbursed(disbursements)]
  /\ last' = Await(GetStats, "routes")
  /\ UNCHANGED <<adminVars, donations, disbursements, inflight, gatewayCalls, now>>

\* handleStats, third query and the response; stats keeps the body returned.
handleStats_donorCount ==
  /\ stats.pc = "count"
  /\ stats' = [stats EXCEPT !.pc = "idle",
                 !.donor_count = CountStatus(donations, "success")]
  /\ last' = Logged(Response(GetStats, "routes", 200),
                    "Stats retrieved successfully")
  /\ UNCHANGED <<adminVars, donations, disbursements, inflight, gatewayCalls, now>>

\* ------------------------------------------- functions/api/[[path]].js
\* if (!data.name || !data.email || !data.amount || data.amount < 10000)
LegacyRejects(body) ==
  \/ body.name = ""
  \/ body.email = NULL
  \/ Falsy(body.amount)
  \/ LessThan(body.amount, MinDonationAmount)

\* Mutant: the row stores the amount charged, fee included.
Legacy_handleCreateDonation_storesTotal(body) ==
  /\ ~LegacyRejects(body)
  /\ Len(donations) < MaxDonations
  /\ donations' = InsertDonation(donations, body.name, body.email,
                    body.phone, body.amount.value + FeeOf[body.amount.value],
                    body.anonymous, "pending")
  /\ inflight' = inflight \cup
       {[id |-> Len(donations) + 1, pc |-> "order", orderId |-> NULL,
         totalAmount |-> body.amount.value + FeeOf[body.amount.value]]}
  /\ last' = Await(PostDonations, "legacy")
  /\ UNCHANGED <<adminVars, disbursements, gatewayCalls, now, stats>>

\* handleCreateDonation up to the first await on the database: validation,
\* fee, INSERT of the pending row.
Legacy_handleCreateDonation(body) ==
  IF LegacyRejects(body)
    THEN /\ last' = Answering(Response(PostDonations, "legacy", 400), body)
         /\ UNCHANGED <<adminVars, donations, disbursements, inflight, gatewayCalls, now,
                        stats>>
    ELSE /\ Len(donations) < MaxDonations
         /\ donations' = InsertDonation(donations, body.name, body.email,
                           body.phone, body.amount.value, body.anonymous,
                           "pending")
         /\ inflight' = inflight \cup
              {[id |-> Len(donations) + 1, pc |-> "order", orderId |-> NULL,
                totalAmount |-> body.amount.value + FeeOf[body.amount.value]]}
         /\ last' = Await(PostDonations, "legacy")
         /\ UNCHANGED <<adminVars, disbursements, gatewayCalls, now, stats>>

\* const orderId = `DONATION-${donationId}-${Date.now()}` and the UPDATE that
\* writes it onto the row.
Legacy_attachOrderId(r) ==
  /\ r.pc = "order"
  /\ donations' = UpdateOrderIdById(donations, OrderIdOf(r.id, now), r.id)
  /\ inflight' = (inflight \ {r}) \cup
       {[r EXCEPT !.pc = "fetch", !.orderId = OrderIdOf(r.id, now)]}
  /\ last' = Await(PostDonations, "legacy")
  /\ UNCHANGED <<adminVars, disbursements, gatewayCalls, now, stats>>

\* What createMidtransTransaction returns: a session with a token, a session
\* without one, or null (non-2xx response or transport failure).
GatewayOutcomes == {"token", "notoken", "null"}

\* Mutant: a token from the gateway is taken for a payment.
Legacy_createMidtransTransaction_marksPaid(r, outcome) ==
  /\ r.pc = "fetch"
  /\ gatewayCalls' = Append(gatewayCalls,
       [order_id |-> r.orderId, gross_amount |-> r.totalAmount])
  /\ IF outcome = "token"
       THEN /\ inflight' = inflight \ {r}
            /\ donations' = UpdateStatusById(donations, "success", r.id)
            /\ last' = Response(PostDonations, "legacy", 200)
       ELSE /\ inflight' = (inflight \ {r}) \cup {[r EXCEPT !.pc = "failed"]}
            /\ donations' = donations
            /\ last' = Await(PostDonations, "legacy")
  /\ UNCHANGED <<adminVars, disbursements, now, stats>>

\* Mutant: a request that brought no token is sent again.
Legacy_createMidtransTransaction_retries(r, outcome) ==
  /\ r.pc = "fetch"
  /\ gatewayCalls' = Append(gatewayCalls,
       [order_id |-> r.orderId, gross_amount |-> r.totalAmount])
  /\ IF outcome = "token"
       THEN /\ inflight' = inflight \ {r}
            /\ last' = Response(PostDonations, "legacy", 200)
       ELSE /\ inflight' = inflight
            /\ last' = Await(PostDonations, "legacy")
  /\ UNCHANGED <<adminVars, donations, disbursements, now, stats>>

\* createMidtransTransaction and, when a token came back, the 200 response.
Legacy_createMidtransTransaction(r, outcome) ==
  /\ r.pc = "fetch"
  /\ gatewayCalls' = Append(gatewayCalls,
       [order_id |-> r.orderId, gross_amount |-> r.totalAmount])
  /\ IF outcome = "token"
       THEN /\ inflight' = inflight \ {r}
            /\ last' = Response(PostDonations, "legacy", 200)
       ELSE /\ inflight' = (inflight \ {r}) \cup {[r EXCEPT !.pc = "failed"]}
            /\ last' = Await(PostDonations, "legacy")
  /\ UNCHANGED <<adminVars, donations, disbursements, now, stats>>

\* Mutant: the error is returned without the UPDATE.
Legacy_markFailed_noWrite(r) ==
  /\ r.pc = "failed"
  /\ inflight' = inflight \ {r}
  /\ last' = Response(PostDonations, "legacy", 500)
  /\ UNCHANGED <<adminVars, donations, disbursements, gatewayCalls, now, stats>>

\* UPDATE donations SET status = 'failed' WHERE id = ? and the 500 response.
Legacy_markFailed(r) ==
  /\ r.pc = "failed"
  /\ donations' = UpdateStatusById(donations, "failed", r.id)
  /\ inflight' = inflight \ {r}
  /\ last' = Response(PostDonations, "legacy", 500)
  /\ UNCHANGED <<adminVars, disbursements, gatewayCalls, now, stats>>

\* handleMidtransWebhook of functions/api/[[path]].js: the same UPDATE, but
\* no try/catch; request.json() throwing reaches the catch of onRequest, which
\* answers 500.
Legacy_handleMidtransWebhook(req) ==
  /\ donations' = IF req = Malformed THEN donations
                  ELSE WebhookUpdate(donations, req)
  /\ last' = IF req = Malformed
                THEN Catching(Response(PostNotification, "legacy", 500),
                              "SyntaxError")
                ELSE Response(PostNotification, "legacy", 200)
  /\ UNCHANGED <<adminVars, disbursements, inflight, gatewayCalls, now, stats>>

\* The same handler when the UPDATE throws: onRequest answers 500.
Legacy_handleMidtransWebhook_dbError(req) ==
  /\ req # Malformed
  /\ WebhookStatus(req) # "none"
  /\ last' = Catching(Response(PostNotification, "legacy", 500), "D1_ERROR")
  /\ UNCHANGED <<adminVars, donations, disbursements, inflight, gatewayCalls, now, stats>>

\* ------------------------------------------------------- dates as text
\* now counts milliseconds from 2024-01-01T00:00:00Z; the clock of the admin
\* routes stays within January 2024.
MsPerHour == 3600000
MsPerDay == 24 * MsPerHour

Pad2(n) == <<DigitChar(n \div 10), DigitChar(n % 10)>>
Pad3(n) == <<DigitChar(n \div 100)>> \o Pad2(n % 100)

\* YYYY-MM-DD of a time.
DateText(ms) == <<"2", "0", "2", "4", "-", "0", "1", "-">> \o Pad2(ms \div MsPerDay + 1)

\* HH:MM:SS of a time.
TimeText(ms) ==
  Pad2((ms % MsPerDay) \div MsPerHour) \o <<":">>
    \o Pad2((ms % MsPerHour) \div 60000) \o <<":">>
    \o Pad2((ms % 60000) \div 1000)

\* new Date(ms).toISOString(): YYYY-MM-DDTHH:MM:SS.mmmZ
toISOString(ms) ==
  DateText(ms) \o <<"T">> \o TimeText(ms) \o <<".">> \o Pad3(ms % 1000) \o <<"Z">>

\* SQLite datetime("now"): YYYY-MM-DD HH:MM:SS
SqliteDatetime(ms) == DateText(ms) \o <<" ">> \o TimeText(ms)

\* The byte of a character (the characters of the two formats only).
CharCode ==
  (" " :> 32) @@ ("-" :> 45) @@ ("." :> 46) @@ (":" :> 58) @@ ("T" :> 84)
    @@ ("Z" :> 90) @@ [d \in {DigitChar(k) : k \in 0..9} |->
                         48 + (CHOOSE k \in 0..9 : DigitChar(k) = d)]

RECURSIVE TextGreater(_, _)
\* a > b for two TEXT values in SQLite (BINARY collation: memcmp, then length).
TextGreater(a, b) ==
  IF a = <<>> THEN FALSE
  ELSE IF b = <<>> THEN TRUE
  ELSE IF CharCode[Head(a)] # CharCode[Head(b)]
    THEN CharCode[Head(a)] > CharCode[Head(b)]
  ELSE TextGreater(Tail(a), Tail(b))

\* ------------------------------------------------------------ utils/auth.js
\* crypto.randomUUID(): a token no session holds yet.
RandomUUID(sessions) == <<"uuid-">> \o ToDecimal(Len(sessions) + 1)

\* Authorization header values: absent is NULL.
Bearer(token) == <<"Bearer ">> \o token
Basic(credentials) == <<"Basic ">> \o credentials

\* extractBearerToken: null unless the header starts with "Bearer ".
extractBearerToken(authHeader) ==
  IF authHeader = NULL \/ Head(authHeader) # "Bearer " THEN NULL
  ELSE Tail(authHeader)

\* verifyAdminToken: SELECT * FROM admin_sessions WHERE token = ? AND
\* expires_at > datetime("now"), a comparison of two TEXT values.
verifyAdminToken(token, sessions, t) ==
  /\ token # NULL
  /\ \E i \in DOMAIN sessions :
       /\ sessions[i].token = token
       /\ TextGreater(sessions[i].expires_at, SqliteDatetime(t))

\* requireAdminAuth(request, db).authorized
requireAdminAuth(authHeader, sessions, t) ==
  /\ extractBearerToken(authHeader) # NULL
  /\ verifyAdminToken(extractBearerToken(authHeader), sessions, t)

\* INSERT INTO admin_sessions (token, expires_at) VALUES (?, ?)
InsertSession(sessions, token, expiresAt, t) ==
  Append(sessions, [id |-> Len(sessions) + 1, token |-> token,
                    expires_at |-> expiresAt, created_at |-> SqliteDatetime(t)])

\* ----------------------------------------------------- routes/admin.js
PostLogin == "POST /api/admin/login"

\* !password for a tagged value.
FalsyText(v) == v.type = "undefined" \/ (v.type = "string" /\ v.value = "")

\* The passwords tried: none, the empty string, a wrong one, the right one.
Passwords == {Undefined, Str(""), Str("guess"), Secret}

\* handleAdminLogin: a missing password is answered 400, a wrong one 401, the
\* right one gets a fresh token stored with expiry Date.now() + 24 hours.
handleAdminLogin(password) ==
  IF FalsyText(password)
    THEN /\ last' = Answering(ErrorResponse(PostLogin, "routes",
                       "MISSING_REQUIRED_FIELD",
                       "Missing required field: password", 400), password)
         /\ UNCHANGED <<adminVars, donations, disbursements, inflight,
                        gatewayCalls, now, stats>>
  ELSE IF ~StrictEquals(password, env.ADMIN_PASSWORD_HASH)
    THEN /\ last' = Answering(Logged(ErrorResponse(PostLogin, "routes",
                       "INVALID_CREDENTIALS", "Invalid credentials", 401),
                       "Failed admin login attempt"), password)
         /\ UNCHANGED <<adminVars, donations, disbursements, inflight,
                        gatewayCalls, now, stats>>
  ELSE /\ Len(admin_sessions) < MaxSessions
       /\ admin_sessions' = InsertSession(admin_sessions,
            RandomUUID(admin_sessions), toISOString(now + MsPerDay), now)
       /\ last' = Answering(Logged(Json(Response(PostLogin, "routes", 200),
            [token |-> RandomUUID(admin_sessions),
             expires_at |-> toISOString(now + MsPerDay)]),
            "Admin login successful"), password)
       /\ UNCHANGED <<disbursement_activities, activity_files, bucket, env,
                      donations, disbursements, inflight, gatewayCalls, now,
                      stats>>

\* handleAdminLogin of functions/api/[[path]].js: only password !==
\* adminPassword is tested.
Legacy_handleAdminLogin(password) ==
  IF ~StrictEquals(password, env.ADMIN_PASSWORD_HASH)
    THEN /\ last' = Answering(Json(Response(PostLogin, "legacy", 401),
                       [error |-> "Invalid password"]), password)
         /\ UNCHANGED <<adminVars, donations, disbursements, inflight,
                        gatewayCalls, now, stats>>
  ELSE /\ Len(admin_sessions) < MaxSessions
       /\ admin_sessions' = InsertSession(admin_sessions,
            RandomUUID(admin_sessions), toISOString(now + MsPerDay), now)
       /\ last' = Answering(Json(Response(PostLogin, "legacy", 200),
            [token |-> RandomUUID(admin_sessions),
             expires_at |-> toISOString(now + MsPerDay)]), password)
       /\ UNCHANGED <<disbursement_activities, activity_files, bucket, env,
                      donations, disbursements, inflight, gatewayCalls, now,
                      stats>>

\* Time passes between two requests, ClockStepHours hours at a time.
TickHours ==
  /\ now + ClockStepHours * MsPerHour <= MaxClockSteps * ClockStepHours * MsPerHour
  /\ now' = now + ClockStepHours * MsPerHour
  /\ last' = Await("clock", "none")
  /\ UNCHANGED <<adminVars, donations, disbursements, inflight, gatewayCalls,
                 stats>>

\* ------------------------------------- disbursement routes (admin endpoints)
MaxDisbursements == 1
MaxActivities == 1

GetAdminDisbursements == "GET /api/admin/disbursements"
PostAdminDisbursements == "POST /api/admin/disbursements"
GetActivities == "GET /api/admin/disbursements/:id/activities"
PostActivities == "POST /api/admin/disbursements/:id/activities"

\* A string value spelled out character by character.
Text(s) == [type |-> "text", value |-> s]

\* !v for a field of an admin request body: undefined, "" and 0 are falsy.
FalsyField(v) ==
  CASE v.type = "undefined" -> TRUE
    [] v.type = "number" -> v.value = 0
    [] v.type = "text" -> v.value = <<>>
    [] OTHER -> FALSE

\* v <= 0 for a tagged value; a text that is no number converts to NaN,
\* and NaN <= 0 is false.
NotPositive(v) == v.type = "number" /\ v.value <= 0

\* A JSON body that is an array.
Array(items) == [type |-> "array", items |-> items]
IsArray(body) == "type" \in DOMAIN body /\ body.type = "array"

\* Errors.UNAUTHORIZED()
Unauthorized(op, impl) ==
  ErrorResponse(op, impl, "UNAUTHORIZED", "Unauthorized access", 401)

\* Errors.NOT_FOUND("Disbursement")
DisbursementNotFound(op, impl) ==
  ErrorResponse(op, impl, "NOT_FOUND", "Disbursement not found", 404)

\* The Authorization headers sent: none, a Basic one, two Bearer ones.
AuthHeaders ==
  {NULL, Basic(<<"uuid-", "1">>), Bearer(<<"uuid-", "0">>),
   Bearer(<<"uuid-", "1">>)}

\* What a request carried: its Authorization header and its input.
Sent(authHeader, input) == [auth |-> authHeader, input |-> input]

\* SELECT id FROM disbursements WHERE id = ?
DisbursementExists(rows, id) == \E i \in DOMAIN rows : rows[i].id = id

\* SELECT ... FROM activity_files WHERE activity_id = ?
FilesOf(files, activityId) ==
  SelectSeq(files, LAMBDA f : f.activity_id = activityId)

\* SELECT ... FROM disbursement_activities WHERE disbursement_id = ?, each
\* row with its files.
ActivitiesWithFiles(activities, files, disbursementId) ==
  LET rows == SelectSeq(activities,
                        LAMBDA a : a.disbursement_id = disbursementId)
  IN [i \in DOMAIN rows |->
        [id |-> rows[i].id, activity_time |-> rows[i].activity_time,
         description |-> rows[i].description,
         created_at |-> rows[i].created_at,
         files |-> FilesOf(files, rows[i].id)]]

\* SELECT * FROM disbursements ORDER BY created_at DESC: newest first.
Reverse(rows) == [i \in DOMAIN rows |-> rows[Len(rows) + 1 - i]]

\* The array handleGetDisbursements answers with.
DisbursementsWithActivities(rows, activities, files) ==
  LET sorted == Reverse(rows)
  IN [i \in DOMAIN sorted |->
        [id |-> sorted[i].id, amount |-> sorted[i].amount,
         description |-> sorted[i].description,
         created_at |-> sorted[i].created_at,
         activities |-> ActivitiesWithFiles(activities, files, sorted[i].id)]]

\* The response of handleGetDisbursements.
GetDisbursementsResponse(authHeader) ==
  Answering(
    IF ~requireAdminAuth(authHeader, admin_sessions, now)
      THEN Unauthorized(GetAdminDisbursements, "routes")
    ELSE Json(Response(GetAdminDisbursements, "routes", 200),
              Array(DisbursementsWithActivities(disbursements,
                      disbursement_activities, activity_files))),
    Sent(authHeader, NULL))

handleGetDisbursements(authHeader) ==
  /\ last' = GetDisbursementsResponse(authHeader)
  /\ UNCHANGED <<adminVars, donations, disbursements, inflight, gatewayCalls,
                 now, stats>>

\* The response of handleGetDisbursementActivities.
GetActivitiesResponse(authHeader, disbursementId) ==
  Answering(
    IF ~requireAdminAuth(authHeader, admin_sessions, now)
      THEN Unauthorized(GetActivities, "routes")
    ELSE IF ~DisbursementExists(disbursements, disbursementId)
      THEN DisbursementNotFound(GetActivities, "routes")
    ELSE Json(Response(GetActivities, "routes", 200),
              Array(ActivitiesWithFiles(disbursement_activities,
                      activity_files, disbursementId))),
    Sent(authHeader, disbursementId))

handleGetDisbursementActivities(authHeader, disbursementId) ==
  /\ last' = GetActivitiesResponse(authHeader, disbursementId)
  /\ UNCHANGED <<adminVars, donations, disbursements, inflight, gatewayCalls,
                 now, stats>>

\* The bodies of POST /api/admin/disbursements.
DisbursementAmounts ==
  {Undefined, Num(0), Num(0 - 5000), Num(50000),
   Text(<<"-", "5", "a", "b", "c">>)}
DisbursementDescriptions ==
  {Undefined, Text(<<>>), Text(<<"<", "b", ">", "A", "&", "B">>)}
DisbursementBodies ==
  [amount : DisbursementAmounts, description : DisbursementDescriptions]

\* INSERT INTO disbursements (amount, description) VALUES (?, ?)
InsertDisbursement(rows, amount, description, t) ==
  Append(rows, [id |-> Len(rows) + 1, amount |-> amount,
                description |-> description,
                created_at |-> SqliteDatetime(t)])

\* Mutant: the row is inserted before the body is validated.
handleCreateDisbursement_insertsFirst(authHeader, body) ==
  IF ~requireAdminAuth(authHeader, admin_sessions, now)
    THEN /\ last' = Answering(Unauthorized(PostAdminDisbursements, "routes"),
                              Sent(authHeader, body))
         /\ UNCHANGED <<adminVars, donations, disbursements, inflight,
                        gatewayCalls, now, stats>>
  ELSE /\ Len(disbursements) < MaxDisbursements
       /\ disbursements' = InsertDisbursement(disbursements, body.amount,
            IF body.description.type = "text"
              THEN sanitizeHtml(body.description.value) ELSE <<>>, now)
       /\ last' = Answering(
            IF FalsyField(body.amount) \/ FalsyField(body.description)
               \/ NotPositive(body.amount)
              THEN ErrorResponse(PostAdminDisbursements, "routes",
                     "VALIDATION_ERROR", "Invalid disbursement data", 400)
            ELSE Logged(Json(Response(PostAdminDisbursements, "routes", 200),
                   [success |-> TRUE]), "Disbursement created"),
            Sent(authHeader, body))
       /\ UNCHANGED <<adminVars, donations, inflight, gatewayCalls, now,
                      stats>>

\* handleCreateDisbursement: 401 without a valid token, 400 for a falsy or
\* non-positive amount or a falsy description, else the row is inserted
\* with the description sanitized.
handleCreateDisbursement(authHeader, body) ==
  IF ~requireAdminAuth(authHeader, admin_sessions, now)
    THEN /\ last' = Answering(Unauthorized(PostAdminDisbursements, "routes"),
                              Sent(authHeader, body))
         /\ UNCHANGED <<adminVars, donations, disbursements, inflight,
                        gatewayCalls, now, stats>>
  ELSE IF FalsyField(body.amount) \/ FalsyField(body.description)
          \/ NotPositive(body.amount)
    THEN /\ last' = Answering(ErrorResponse(PostAdminDisbursements, "routes",
                       "VALIDATION_ERROR", "Invalid disbursement data", 400),
                       Sent(authHeader, body))
         /\ UNCHANGED <<adminVars, donations, disbursements, inflight,
                        gatewayCalls, now, stats>>
  ELSE /\ Len(disbursements) < MaxDisbursements
       /\ disbursements' = InsertDisbursement(disbursements, body.amount,
            sanitizeHtml(body.description.value), now)
       /\ last' = Answering(Logged(Json(
            Response(PostAdminDisbursements, "routes", 200),
            [success |-> TRUE]), "Disbursement created"),
            Sent(authHeader, body))
       /\ UNCHANGED <<adminVars, donations, inflight, gatewayCalls, now,
                      stats>>

\* The files of an activity body: none, or a complete file and one without
\* a URL.
CompleteFile ==
  [file_url |-> Text(<<"h", "/", "a", ".", "p", "n", "g">>),
   file_name |-> Text(<<"a", ".", "p", "n", "g">>),
   file_type |-> Text(<<"i", "/", "p">>)]
FileWithoutUrl ==
  [file_url |-> Undefined, file_name |-> Text(<<"b">>),
   file_type |-> Undefined]
ActivityFiles == {<<>>, <<CompleteFile, FileWithoutUrl>>}
ActivityTimes == {Undefined, Text(<<"2", "0", "2", "4">>)}
ActivityBodies ==
  [activity_time : ActivityTimes,
   description : {Undefined, Text(<<"<", "i", ">", "x">>)},
   files : ActivityFiles]

\* INSERT INTO disbursement_activities (disbursement_id, activity_time,
\* description) VALUES (?, ?, ?)
InsertActivity(rows, disbursementId, activityTime, description, t) ==
  Append(rows, [id |-> Len(rows) + 1, disbursement_id |-> disbursementId,
                activity_time |-> activityTime, description |-> description,
                created_at |-> SqliteDatetime(t)])

RECURSIVE InsertFiles(_, _, _)
\* for (const file of files): a file with a URL and a name gets a row of
\* activity_files, its texts sanitized; the others are skipped.
InsertFiles(rows, activityId, files) ==
  IF files = <<>> THEN rows
  ELSE IF FalsyField(Head(files).file_url) \/ FalsyField(Head(files).file_name)
    THEN InsertFiles(rows, activityId, Tail(files))
  ELSE InsertFiles(
         Append(rows,
           [id |-> Len(rows) + 1, activity_id |-> activityId,
            file_url |-> sanitizeText(Head(files).file_url.value, 500),
            file_name |-> sanitizeText(Head(files).file_name.value, 255),
            file_type |-> IF FalsyField(Head(files).file_type) THEN NULL
                          ELSE sanitizeText(Head(files).file_type.value, 50)]),
         activityId, Tail(files))

\* handleCreateDisbursementActivity: 401, then 404 for an unknown
\* disbursement, then 400 for a missing activity_time or description, else
\* the activity row and its file rows are inserted.
handleCreateDisbursementActivity(authHeader, disbursementId, body) ==
  IF ~requireAdminAuth(authHeader, admin_sessions, now)
    THEN /\ last' = Answering(Unauthorized(PostActivities, "routes"),
                              Sent(authHeader, body))
         /\ UNCHANGED <<adminVars, donations, disbursements, inflight,
                        gatewayCalls, now, stats>>
  ELSE IF ~DisbursementExists(disbursements, disbursementId)
    THEN /\ last' = Answering(DisbursementNotFound(PostActivities, "routes"),
                              Sent(authHeader, body))
         /\ UNCHANGED <<adminVars, donations, disbursements, inflight,
                        gatewayCalls, now, stats>>
  ELSE IF FalsyField(body.activity_time) \/ FalsyField(body.description)
    THEN /\ last' = Answering(ErrorResponse(PostActivities, "routes",
                       "MISSING_REQUIRED_FIELD",
                       "Missing required field: activity_time or description",
                       400), Sent(authHeader, body))
         /\ UNCHANGED <<adminVars, donations, disbursements, inflight,
                        gatewayCalls, now, stats>>
  ELSE /\ Len(disbursement_activities) < MaxActivities
       /\ disbursement_activities' = InsertActivity(disbursement_activities,
            disbursementId, body.activity_time.value,
            sanitizeHtml(body.description.value), now)
       /\ activity_files' = InsertFiles(activity_files,
            Len(disbursement_activities) + 1, body.files)
       /\ last' = Answering(Logged(Json(Response(PostActivities, "routes", 200),
            [success |-> TRUE,
             activity_id |-> Len(disbursement_activities) + 1]),
            "Disbursement activity created"), Sent(authHeader, body))
       /\ UNCHANGED <<admin_sessions, bucket, env, donations, disbursements,
                      inflight, gatewayCalls, now, stats>>

\* ----------------------------------------------------- upload (routes/admin)
MaxBlobs == 1
\* maxSize = 10 * 1024 * 1024
MaxUploadSize == 10485760

PostUpload == "POST /api/admin/upload"

AllowedTypes ==
  {"image/jpeg", "image/jpg", "image/png", "image/gif", "image/webp",
   "application/pdf", "video/mp4", "video/quicktime"}

\* The form's "file" entry: none, or a file of some name, size and type.
UploadSizes == {MaxUploadSize, MaxUploadSize + 1}
UploadTypes == {"image/png", "text/html"}
UploadNames == {<<"a", ".", "p", "n", "g">>}
Uploads ==
  {NULL} \cup [name : UploadNames, size : UploadSizes, type : UploadTypes]

RECURSIVE LastSegment(_)
\* name.split(".").pop(): what follows the last "."
LastSegment(s) ==
  IF \E i \in DOMAIN s : s[i] = "." THEN LastSegment(Tail(s)) ELSE s

\* The extension of the stored file: the last segment of the sanitized
\* name, or "bin"; its alphanumerics, at most 10 of them, or "bin".
SafeExtension(name) ==
  LET fileExtension ==
        IF LastSegment(sanitizeText(name, MaxTextLength)) = <<>>
          THEN <<"b", "i", "n">>
        ELSE LastSegment(sanitizeText(name, MaxTextLength))
      safe == Substring(SelectSeq(fileExtension,
                                  LAMBDA c : c \in Alnum), 10)
  IN IF safe = <<>> THEN <<"b", "i", "n">> ELSE safe

\* Math.random().toString(36).substring(7)
RandomSuffixes == {"k3x9", "q0z7"}

\* `activity_${timestamp}_${random}.${safeExtension}`
FileKey(t, random, name) ==
  [timestamp |-> t, random |-> random, extension |-> SafeExtension(name)]

\* handleFileUpload: 401, then 400 for no file, a file over 10 MB or a type
\* off the allow-list, then 500 without a bucket, else the blob is stored.
handleFileUpload(authHeader, file, random) ==
  IF ~requireAdminAuth(authHeader, admin_sessions, now)
    THEN /\ last' = Answering(Unauthorized(PostUpload, "routes"),
                              Sent(authHeader, file))
         /\ UNCHANGED <<adminVars, donations, disbursements, inflight,
                        gatewayCalls, now, stats>>
  ELSE IF file = NULL
    THEN /\ last' = Answering(ErrorResponse(PostUpload, "routes",
                       "VALIDATION_ERROR", "No file provided", 400),
                       Sent(authHeader, file))
         /\ UNCHANGED <<adminVars, donations, disbursements, inflight,
                        gatewayCalls, now, stats>>
  ELSE IF file.size > MaxUploadSize
    THEN /\ last' = Answering(ErrorResponse(PostUpload, "routes",
                       "VALIDATION_ERROR", "File size exceeds 10MB limit",
                       400), Sent(authHeader, file))
         /\ UNCHANGED <<adminVars, donations, disbursements, inflight,
                        gatewayCalls, now, stats>>
  ELSE IF file.type \notin AllowedTypes
    THEN /\ last' = Answering(ErrorResponse(PostUpload, "routes",
                       "VALIDATION_ERROR", "File type not allowed", 400),
                       Sent(authHeader, file))
         /\ UNCHANGED <<adminVars, donations, disbursements, inflight,
                        gatewayCalls, now, stats>>
  ELSE IF ~env.ACTIVITY_FILES
    THEN /\ last' = Answering(ErrorResponse(PostUpload, "routes",
                       "INTERNAL_ERROR", "R2 bucket not configured", 500),
                       Sent(authHeader, file))
         /\ UNCHANGED <<adminVars, donations, disbursements, inflight,
                        gatewayCalls, now, stats>>
  ELSE /\ Cardinality(bucket) < MaxBlobs
       /\ bucket' = bucket \cup
            {[key |-> FileKey(now, random, file.name),
              contentType |-> file.type, originalName |-> file.name]}
       /\ last' = Answering(Logged(Json(Response(PostUpload, "routes", 200),
            [success |-> TRUE, file_key |-> FileKey(now, random, file.name),
             file_name |-> file.name, file_size |-> file.size,
             file_type |-> file.type]), "File uploaded successfully"),
            Sent(authHeader, file))
       /\ UNCHANGED <<admin_sessions, disbursement_activities, activity_files,
                      env, donations, disbursements, inflight, gatewayCalls,
                      now, stats>>

\* A deployment without the R2 binding.
NoBucket == [ADMIN_PASSWORD_HASH |-> Secret, ACTIVITY_FILES |-> FALSE]

\* ------------------------------------------------------ the paginated feeds
GetDonations == "GET /api/donations"
GetDisbursements == "GET /api/disbursements"

DefaultPage == 1
DefaultLimit == 10
MaxLimit == 100

\* Not a number.
NaN == [type |-> "NaN", value |-> 0]

\* parseInt(text): leading white space skipped, an optional sign, then the
\* longest prefix of digits; NaN for null and for a text without such a
\* prefix.
parseInt(text) ==
  IF text = NULL THEN NaN
  ELSE LET s == TrimStart(text)
           signed == s # <<>> /\ Head(s) \in {"-", "+"}
           digits == IF signed THEN Tail(s) ELSE s
       IN IF digits = <<>> \/ ~IsDigit(Head(digits)) THEN NaN
          ELSE IF signed /\ Head(s) = "-"
            THEN Num(0 - ParseDigits(digits, 0))
          ELSE Num(ParseDigits(digits, 0))

\* parseInt(text) || fallback
ParseOr(text, fallback) ==
  IF parseInt(text).type = "NaN" \/ parseInt(text).value = 0 THEN fallback
  ELSE parseInt(text).value

\* Mutant: rounds down.
CeilDiv_roundsDown(a, b) == a \div b

\* Math.ceil(a / b) for a count a and a limit b >= 1.
CeilDiv(a, b) == IF a % b = 0 THEN a \div b ELSE a \div b + 1

RECURSIVE InsertByCreatedAt(_, _)
\* A row put into rows sorted by created_at, latest first: before the first
\* row that is earlier than it (rows of one created_at stay in the order
\* they were read in).
InsertByCreatedAt(sorted, row) ==
  IF sorted = <<>> THEN <<row>>
  ELSE IF TextGreater(row.created_at, Head(sorted).created_at)
    THEN <<row>> \o sorted
  ELSE <<Head(sorted)>> \o InsertByCreatedAt(Tail(sorted), row)

RECURSIVE OrderByCreatedAtDesc(_)
\* ORDER BY created_at DESC
OrderByCreatedAtDesc(rows) ==
  IF rows = <<>> THEN <<>>
  ELSE InsertByCreatedAt(OrderByCreatedAtDesc(SubSeq(rows, 1, Len(rows) - 1)),
                         rows[Len(rows)])

\* Mutant: the offset is ignored.
LimitOffset_noOffset(rows, limit, offset) ==
  SubSeq(rows, 1, IF limit < Len(rows) THEN limit ELSE Len(rows))

\* LIMIT ? OFFSET ?
LimitOffset(rows, limit, offset) ==
  SubSeq(rows, offset + 1,
         IF offset + limit < Len(rows) THEN offset + limit ELSE Len(rows))

\* Mutant: the stored name whatever the flag, and the email too.
SanitizedDonation_leaks(donation) ==
  [amount |-> donation.amount, created_at |-> donation.created_at,
   name |-> donation.name, email |-> donation.email]

\* The feed's view of a donation: amount, created_at, the name or the
\* placeholder, and the message when there is one (null and the empty text
\* are both falsy, and both are the empty sequence here).
SanitizedDonation(donation) ==
  LET sanitized ==
        [amount |-> donation.amount, created_at |-> donation.created_at,
         name |-> IF donation.anonymous # 0 THEN "Donatur Anonim"
                  ELSE donation.name]
  IN IF donation.message # NULL
       THEN sanitized @@ [message |-> donation.message]
     ELSE sanitized

\* The pagination object of both feeds.
Pagination(page, limit, totalCount) ==
  [page |-> page, limit |-> limit, total_count |-> totalCount,
   total_pages |-> CeilDiv(totalCount, limit),
   has_next |-> page < CeilDiv(totalCount, limit),
   has_prev |-> page > 1]

\* Errors.VALIDATION_ERROR("Invalid pagination parameters", {page, limit})
InvalidPagination(op, page, limit) ==
  Json(Response(op, "routes", 400),
       [error |-> "VALIDATION_ERROR",
        message |-> "Invalid pagination parameters",
        details |-> [page |-> page, limit |-> limit]])

\* The query of a feed request: the texts of page and limit, null if absent.
Query(page, limit) == [page |-> page, limit |-> limit]

\* Mutant: the SELECT and the COUNT without their WHERE clause.
GetDonationsResponse_allRows(rows, query) ==
  LET page == ParseOr(query.page, DefaultPage)
      limit == ParseOr(query.limit, DefaultLimit)
      offset == (page - 1) * limit
  IN Answering(
       IF page < 1 \/ limit < 1 \/ limit > MaxLimit
         THEN InvalidPagination(GetDonations, page, limit)
       ELSE Json(Response(GetDonations, "routes", 200),
              [donations |->
                 LET found == LimitOffset(OrderByCreatedAtDesc(rows),
                                          limit, offset)
                 IN [i \in DOMAIN found |-> SanitizedDonation(found[i])],
               pagination |-> Pagination(page, limit, Len(rows))]),
       query)

\* The response of handleGetDonations on a donations table.
GetDonationsResponse(rows, query) ==
  LET page == ParseOr(query.page, DefaultPage)
      limit == ParseOr(query.limit, DefaultLimit)
      offset == (page - 1) * limit
      success == SelectSeq(rows, LAMBDA r : r.status = "success")
  IN Answering(
       IF page < 1 \/ limit < 1 \/ limit > MaxLimit
         THEN InvalidPagination(GetDonations, page, limit)
       ELSE Json(Response(GetDonations, "routes", 200),
              [donations |->
                 LET found == LimitOffset(OrderByCreatedAtDesc(success),
                                          limit, offset)
                 IN [i \in DOMAIN found |-> SanitizedDonation(found[i])],
               pagination |-> Pagination(page, limit, Len(success))]),
       query)

handleGetDonations(query) ==
  /\ last' = GetDonationsResponse(donations, query)
  /\ UNCHANGED <<adminVars, donations, disbursements, inflight, gatewayCalls,
                 now, stats>>

\* LIMIT 20 of the feed in functions/api/[[path]].js
LegacyFeedLimit == 20

\* handleGetDonations of functions/api/[[path]].js: the latest 20 paid
\* donations, as a bare array.
Legacy_handleGetDonations ==
  /\ last' = Json(Response(GetDonations, "legacy", 200),
       Array(LET found == LimitOffset(
                   OrderByCreatedAtDesc(
                     SelectSeq(donations, LAMBDA r : r.status = "success")),
                   LegacyFeedLimit, 0)
             IN [i \in DOMAIN found |-> SanitizedDonation(found[i])]))
  /\ UNCHANGED <<adminVars, donations, disbursements, inflight, gatewayCalls,
                 now, stats>>

\* The response of handleGetDisbursementsPublic.
GetDisbursementsPublicResponse(rows, activities, files, query) ==
  LET page == ParseOr(query.page, DefaultPage)
      limit == ParseOr(query.limit, DefaultLimit)
      offset == (page - 1) * limit
  IN Answering(
       IF page < 1 \/ limit < 1 \/ limit > MaxLimit
         THEN InvalidPagination(GetDisbursements, page, limit)
       ELSE Json(Response(GetDisbursements, "routes", 200),
              [disbursements |->
                 LET found == LimitOffset(OrderByCreatedAtDesc(rows),
                                          limit, offset)
                 IN [i \in DOMAIN found |->
                       [id |-> found[i].id, amount |-> found[i].amount,
                        description |-> found[i].description,
                        created_at |-> found[i].created_at,
                        activities |->
                          ActivitiesWithFiles(activities, files, found[i].id)]],
               pagination |-> Pagination(page, limit, Len(rows))]),
       query)

handleGetDisbursementsPublic(query) ==
  /\ last' = GetDisbursementsPublicResponse(disbursements,
                disbursement_activities, activity_files, query)
  /\ UNCHANGED <<adminVars, donations, disbursements, inflight, gatewayCalls,
                 now, stats>>

\* ----------------------------------------------------------- the entry point
\* crypto.randomUUID() of onRequest
RequestIds == {"req-a", "req-b"}

\* The property names of the first elements of an array: "0", "1", ...
IndexKeys == <<"0", "1", "2", "3", "4", "5", "6", "7", "8", "9">>

\* { ...body, request_id: requestId }: the own properties of body, which for
\* an array are its indices, and request_id.
Spread(body, requestId) ==
  IF IsArray(body)
    THEN [k \in {IndexKeys[i] : i \in DOMAIN body.items} \cup {"request_id"} |->
            IF k = "request_id" THEN requestId
            ELSE body.items[CHOOSE i \in DOMAIN body.items : IndexKeys[i] = k]]
  ELSE [k \in DOMAIN body \cup {"request_id"} |->
          IF k = "request_id" THEN requestId ELSE body[k]]

\* What onRequest returns for the response of a handler: the header
\* X-Request-ID set, and the JSON body spread into an object with request_id.
Routed(response, requestId) ==
  [response EXCEPT !.headers = [XRequestID |-> requestId],
                   !.body = Spread(response.body, requestId)]

\* Requests for the routes that read, and one for no route.
ReadRequests ==
  [op : {GetDonations, GetDisbursements},
   query : {Query(NULL, NULL), Query(<<"2">>, <<"1">>),
            Query(NULL, <<"1", "0", "1">>)},
   auth : {NULL}, id : {1}]
  \cup [op : {GetAdminDisbursements}, query : {NULL}, auth : AuthHeaders,
         id : {1}]
  \cup [op : {GetActivities}, query : {NULL}, auth : AuthHeaders,
         id : {1, 3}]
  \cup [op : {"GET /api/nothing"}, query : {NULL}, auth : {NULL}, id : {1}]

\* The response of the handler onRequest calls for a request.
HandlerResponse(req) ==
  CASE req.op = GetDonations -> GetDonationsResponse(donations, req.query)
    [] req.op = GetDisbursements ->
         GetDisbursementsPublicResponse(disbursements,
           disbursement_activities, activity_files, req.query)
    [] req.op = GetAdminDisbursements -> GetDisbursementsResponse(req.auth)
    [] req.op = GetActivities -> GetActivitiesResponse(req.auth, req.id)
    [] OTHER -> ErrorResponse(req.op, "routes", "NOT_FOUND",
                              "Endpoint not found", 404)

\* onRequest for a request of a reading route.
onRequest(req, requestId) ==
  /\ last' = Routed(HandlerResponse(req), requestId)
  /\ UNCHANGED <<adminVars, donations, disbursements, inflight, gatewayCalls,
                 now, stats>>

\* -------------------------------------------------------------- Next
\* One notification for each outcome the webhook distinguishes (success,
\* failed, ignored status, ignored fraud status), for every order id.
LifecycleNotifications ==
  {n \in Notifications :
     \/ n.fraud_status = "accept"
          /\ n.transaction_status \in {"settlement", "expire", "pending"}
     \/ n.fraud_status = "challenge" /\ n.transaction_status = "settlement"}

\* One body that passes and one that fails the checks of routes/donations.js.
LifecycleBodies ==
  { Body("Ann", GoodEmail, NULL, Num(MinDonationAmount), FALSE),
    Body("Ann", GoodEmail, NULL, Num(MinDonationAmount - 1), FALSE) }

\* Submissions and notifications: the donation lifecycle.
Next ==
  \/ Tick
  \/ \E body \in LifecycleBodies : handleCreateDonation(body)
  \/ \E req \in LifecycleNotifications \cup {Malformed} :
       handleMidtransWebhook(req)
  \/ \E body \in LegacyBodies : Legacy_handleCreateDonation(body)
  \/ \E r \in inflight : Legacy_attachOrderId(r)
  \/ \E r \in inflight, outcome \in GatewayOutcomes :
       Legacy_createMidtransTransaction(r, outcome)
  \/ \E r \in inflight : Legacy_markFailed(r)

Spec == Init /\ [][Next]_vars

\* ------------------------------------------------ handlers on stored tables
\* The body stored at id i: the two valid bodies in turn (the handlers below
\* read status, order id and amount only).
StoredBody(i) ==
  IF i % 2 = 1 THEN Body("Ann", GoodEmail, NULL, Num(MinDonationAmount), FALSE)
  ELSE Body("Budi", GoodEmail, GoodPhone, Num(999999), TRUE)

\* The rows a finished submission can have left at id i: the order id is
\* written before any status other than pending can be.
StoredRows(i) ==
  {[id |-> i, name |-> StoredBody(i).name, email |-> StoredBody(i).email,
    phone |-> StoredBody(i).phone, amount |-> StoredBody(i).amount.value,
    anonymous |-> IF StoredBody(i).anonymous THEN 1 ELSE 0,
    status |-> st, midtrans_order_id |-> oid] :
     st \in {"pending", "success", "failed"},
     oid \in {NULL} \cup {OrderIdOf(i, t) : t \in 0..MaxTime}}

RECURSIVE StoredTables(_)
\* Donations tables with k rows that the lifecycle reaches.
StoredTables(k) ==
  IF k = 0 THEN {<<>>}
  ELSE {Append(T, r) : T \in StoredTables(k - 1),
                       r \in {x \in StoredRows(k) :
                                x.midtrans_order_id = NULL => x.status = "pending"}}

InitStored ==
  /\ donations \in UNION {StoredTables(k) : k \in 0..MaxDonations}
  /\ disbursements = <<>>
  /\ inflight = {}
  /\ gatewayCalls = <<>>
  /\ now = 0
  /\ stats = StatsIdle
  /\ last = Response("deploy", "none", 0)
  /\ admin_sessions = <<>>
  /\ disbursement_activities = <<>>
  /\ activity_files = <<>>
  /\ bucket = {}
  /\ env = Configured

\* The webhook handler run on every stored table with every notification.
NextWebhook ==
  \E req \in Notifications \cup {Malformed} : handleMidtransWebhook(req)

SpecWebhook == InitStored /\ [][NextWebhook]_vars

\* POST /api/donations as the router dispatches it, on every stored table with
\* every body.
NextSubmit ==
  \E body \in Bodies : handleCreateDonation(body)

SpecSubmit == InitStored /\ [][NextSubmit]_vars

\* POST /api/midtrans/notification through either handler, on every stored
\* table, with and without a database error.
NextNotify ==
  \/ \E req \in LifecycleNotifications \cup {Malformed} :
       handleMidtransWebhook(req)
  \/ \E req \in LifecycleNotifications : handleMidtransWebhook_dbError(req)
  \/ \E req \in LifecycleNotifications \cup {Malformed} :
       Legacy_handleMidtransWebhook(req)
  \/ \E req \in LifecycleNotifications :
       Legacy_handleMidtransWebhook_dbError(req)

SpecNotify == InitStored /\ [][NextNotify]_vars

\* A statistics request on every stored table, with accepted notifications
\* delivered between its queries.
StatsNotifications ==
  {n \in Notifications : n.fraud_status = "accept"
                           /\ n.transaction_status \in {"settlement", "expire"}}

NextStats ==
  \/ handleStats_totalRaised
  \/ handleStats_totalDisbursed
  \/ handleStats_donorCount
  \/ \E req \in StatsNotifications : handleMidtransWebhook(req)

SpecStats == InitStored /\ [][NextStats]_vars

\* Rows whose order id a notification names.
Matched(rows, n) ==
  {i \in DOMAIN rows : n.order_id # NULL /\ rows[i].midtrans_order_id = n.order_id}

\* A submission of every amount in FeeAmounts.
FeeBodies == {Body("Ann", GoodEmail, NULL, Num(a), FALSE) : a \in FeeAmounts}

\* Single submissions of every amount in FeeAmounts, each run up to its
\* request to the gateway and its response, with the notifications the
\* gateway sends for it.
NextFee ==
  \/ /\ donations = <<>>
     /\ \E body \in FeeBodies : Legacy_handleCreateDonation(body)
  \/ \E r \in inflight : Legacy_attachOrderId(r)
  \/ \E r \in inflight, outcome \in GatewayOutcomes :
       Legacy_createMidtransTransaction(r, outcome)
  \/ \E r \in inflight : Legacy_markFailed(r)
  \/ \E req \in LifecycleNotifications :
       /\ Matched(donations, req) # {}
       /\ handleMidtransWebhook(req)

SpecFee == Init /\ [][NextFee]_vars

\* ======================================================== claims C1..C10
Terminal == {"success", "failed"}

\* C1: once a donation is success or failed its status never changes again,
\* whatever submissions and notifications follow.
C1_StatusChangesAtMostOnce ==
  [][\A i \in DOMAIN donations :
       donations[i].status \in Terminal
         => donations'[i].status = donations[i].status]_vars

RECURSIVE SuccessTotal(_, _)
\* The amounts of the success donations among the first k rows, added up.
SuccessTotal(rows, k) ==
  IF k = 0 THEN 0
  ELSE SuccessTotal(rows, k - 1)
         + (IF rows[k].status = "success" THEN rows[k].amount ELSE 0)

\* The notifications with the given statuses that name the order id of a
\* stored donation.
NotificationsFor(rows, txStatuses, fraudStatuses) ==
  {n \in [order_id : {rows[i].midtrans_order_id : i \in DOMAIN rows} \ {NULL},
          transaction_status : txStatuses, fraud_status : fraudStatuses] :
     n \in Notifications}

\* C2: a notification with fraud_status "accept" and transaction_status
\* "settlement" or "capture" whose order_id is the order id of a stored
\* donation leaves that donation in status success, whatever its status was,
\* and changes the status of no other donation.
C2_AcceptedSettlementSetsSuccess ==
  [][\A n \in NotificationsFor(donations, {"settlement", "capture"}, {"accept"}) :
       handleMidtransWebhook(n)
         => /\ Cardinality(Matched(donations, n)) = 1
            /\ Len(donations') = Len(donations)
            /\ \A i \in DOMAIN donations :
                 donations'[i].status =
                   IF i \in Matched(donations, n) THEN "success"
                   ELSE donations[i].status]_vars

\* C2 witness: a notification has just been answered, one donation is success
\* and another one, which also carries an order id, still is pending.
C2_Witness ==
  /\ last = Logged(Response(PostNotification, "routes", 200), "Payment successful")
  /\ \E i, j \in DOMAIN donations :
       /\ donations[i].status = "success"
       /\ donations[j].status = "pending"
       /\ donations[j].midtrans_order_id # NULL

\* C3: a notification with fraud_status "accept" and transaction_status
\* "cancel", "deny" or "expire" whose order_id is the order id of a stored
\* donation leaves that donation in status failed and changes the status of no
\* other donation.
C3_AcceptedFailureSetsFailed ==
  [][\A n \in NotificationsFor(donations, {"cancel", "deny", "expire"}, {"accept"}) :
       handleMidtransWebhook(n)
         => /\ Len(donations') = Len(donations)
            /\ \A i \in DOMAIN donations :
                 donations'[i].status =
                   IF i \in Matched(donations, n) THEN "failed"
                   ELSE donations[i].status]_vars

\* C3 witness: a notification has just been answered, one donation is failed
\* and another one, which also carries an order id, is success.
C3_Witness ==
  /\ last = Logged(Response(PostNotification, "routes", 200), "Payment failed")
  /\ \E i, j \in DOMAIN donations :
       /\ donations[i].status = "failed"
       /\ donations[j].status = "success"
       /\ donations[j].midtrans_order_id # NULL

\* A notification the handler must ignore.
Ignored(n) ==
  \/ n.fraud_status # "accept"
  \/ n.transaction_status \notin {"capture", "settlement", "cancel", "deny", "expire"}

IgnoredNotifications == {n \in Notifications : Ignored(n)}

\* C4: a notification whose fraud_status is not "accept" (or is absent), or
\* whose transaction_status is none of capture, settlement, cancel, deny,
\* expire, leaves every donation row as it was, whatever its order_id: a step
\* that changes a row is the handling of no such notification.
C4_IgnoredNotificationChangesNothing ==
  [][donations' # donations
       => \A n \in IgnoredNotifications : ~handleMidtransWebhook(n)]_vars

\* C4 witness: a notification has just been answered and a donation that
\* carries an order id is pending beside one that is failed.
C4_Witness ==
  /\ last = Response(PostNotification, "routes", 200)
  /\ last.log = "none"
  /\ \E i, j \in DOMAIN donations :
       /\ donations[i].status = "pending"
       /\ donations[i].midtrans_order_id # NULL
       /\ donations[j].status = "failed"

\* C5: for every table and every notification, handling the notification a
\* second time leaves the table as the first handling left it.
C5_WebhookIdempotent ==
  \A n \in Notifications :
    WebhookUpdate(WebhookUpdate(donations, n), n) = WebhookUpdate(donations, n)

\* C5 witness: an accepted "expire" has just been applied to a donation (it
\* is failed now, beside a donation that is success) and the same notification
\* can be delivered again.
C5_Witness ==
  /\ last = Logged(Response(PostNotification, "routes", 200), "Payment failed")
  /\ \E n \in NotificationsFor(donations, {"expire"}, {"accept"}) :
       /\ \A i \in Matched(donations, n) : donations[i].status = "failed"
       /\ \E j \in DOMAIN donations \ Matched(donations, n) :
            donations[j].status = "success" /\ donations[j].midtrans_order_id # NULL

\* C6: the total_raised a statistics request reads is the sum of the amounts
\* of the donations that are success at that moment, and the donor_count it
\* reads is the number of the donations that are success at that moment;
\* pending and failed donations add nothing to either.
C6_StatsCountSuccessOnly ==
  [][/\ handleStats_totalRaised
          => stats'.total_raised = SuccessTotal(donations, Len(donations))
     /\ handleStats_donorCount
          => stats'.donor_count =
               Cardinality({i \in DOMAIN donations : donations[i].status = "success"})]_vars

\* C6 witness: a statistics request has been answered with a total and a
\* count above zero while a pending and a failed donation are stored too.
C6_Witness ==
  /\ last.op = GetStats
  /\ last.status = 200
  /\ stats.total_raised > 0
  /\ stats.donor_count > 0
  /\ \E i, j \in DOMAIN donations :
       /\ donations[i].status = "success"
       /\ donations[j].status # "success"

\* C7: the row a submission inserts stores exactly the amount of the request
\* body, without the fee, and no step (attaching the order id, the write after
\* a gateway failure, a notification, any other request) changes the amount
\* of a stored row or removes the row.
C7_StoredAmountIsSubmittedAmount ==
  [][/\ \A body \in LegacyBodies \cup FeeBodies :
          (~LegacyRejects(body) /\ Legacy_handleCreateDonation(body))
            => /\ Len(donations') = Len(donations) + 1
               /\ donations'[Len(donations')].amount = body.amount.value
               /\ donations'[Len(donations')].amount
                    < body.amount.value + FeeOf[body.amount.value]
     /\ \A i \in DOMAIN donations :
          /\ i \in DOMAIN donations'
          /\ donations'[i].amount = donations[i].amount]_vars

\* C7 witness: a donation submitted with amount 999999 was sent to the
\* gateway with the fee added, a notification has just made it success, and
\* it still stores 999999.
C7_Witness ==
  /\ last = Logged(Response(PostNotification, "routes", 200), "Payment successful")
  /\ \E i \in DOMAIN donations, k \in DOMAIN gatewayCalls :
       /\ donations[i].status = "success"
       /\ donations[i].amount = 999999
       /\ gatewayCalls[k].order_id = donations[i].midtrans_order_id
       /\ gatewayCalls[k].gross_amount = 1006999

\* The least integer that is at least 7a/1000, in integer arithmetic.
CeilSevenPerMille(a) == 7 * (a \div 1000) + ((7 * (a % 1000) + 999) \div 1000)

\* C8: for every integer amount a from 10000 to 1000000000 the fee is the
\* least integer >= 7a/1000, and the gross_amount of the request to the
\* gateway is a plus that fee; 10000 gives 70 and 10070, 999999 gives 7000 and
\* 1006999.
C8_FeeIsCeilOfSevenPerMille ==
  /\ \A r \in inflight :
       r.totalAmount = donations[r.id].amount
                         + CeilSevenPerMille(donations[r.id].amount)
  /\ \A k \in DOMAIN gatewayCalls :
       \E i \in DOMAIN donations :
         /\ donations[i].midtrans_order_id = gatewayCalls[k].order_id
         /\ donations[i].amount \in MinDonationAmount..MaxDonationAmount
         /\ gatewayCalls[k].gross_amount
              = donations[i].amount + CeilSevenPerMille(donations[i].amount)
         /\ donations[i].amount = 10000 => gatewayCalls[k].gross_amount = 10070
         /\ donations[i].amount = 999999 => gatewayCalls[k].gross_amount = 1006999

\* C8 witness: the request to the gateway for a donation of 1000000000 has
\* been sent and answered with a token.
C8_Witness ==
  /\ last = Response(PostDonations, "legacy", 200)
  /\ donations # <<>>
  /\ donations[1].amount = MaxDonationAmount
  /\ gatewayCalls # <<>>
  /\ gatewayCalls[1].gross_amount = 1007000000

\* C9: a POST /api/donations whose body passes every validation rule inserts
\* exactly one donation row, pending and without an order id.
C9_ValidSubmissionInsertsPendingRow ==
  [][\A body \in ValidBodies :
       (handleCreateDonation(body) /\ ~FailsValidation(body))
         => /\ Len(donations') = Len(donations) + 1
            /\ SubSeq(donations', 1, Len(donations)) = donations
            /\ donations'[Len(donations')].status = "pending"
            /\ donations'[Len(donations')].midtrans_order_id = NULL]_vars

C11_AdapterFailureAnswers502 ==
  [][\A r \in inflight :
       Legacy_markFailed(r)
         => /\ donations'[r.id].status = "failed"
            /\ last'.status = 502]_vars

\* C11 as amended: when the gateway call of a submission has failed (null
\* result or a session without a token), the donation is failed at the moment
\* the response is returned, whatever a notification wrote meanwhile, and
\* the response has status 500.
C11_AdapterFailureAnswers500 ==
  [][\A r \in inflight :
       Legacy_markFailed(r)
         => /\ donations'[r.id].status = "failed"
            /\ last'.op = PostDonations
            /\ last'.status = 500]_vars

\* C11 witness: the gateway was called for the donation and the submission
\* has just been answered 500 with the donation failed.
C11_Witness ==
  /\ last = Response(PostDonations, "legacy", 500)
  /\ gatewayCalls # <<>>
  /\ inflight = {}
  /\ donations # <<>>
  /\ donations[1].status = "failed"

\* C12: every POST to /api/midtrans/notification is answered 200, whether the
\* body parses or not, the order id matches or not, the status is handled or
\* ignored, and the UPDATE succeeds or throws.
C12_NotificationAlwaysAnswered200 ==
  last.op = PostNotification => last.status = 200


\* ------------------------------------------------------- admin authentication
\* The deployments: with the secret and the bucket bound, without the secret,
\* without the bucket.
Environments == {Configured, Unconfigured, NoBucket}

InitAdmin ==
  /\ donations = <<>>
  /\ disbursements = <<>>
  /\ inflight = {}
  /\ gatewayCalls = <<>>
  /\ now = 0
  /\ stats = StatsIdle
  /\ last = Response("deploy", "none", 0)
  /\ admin_sessions = <<>>
  /\ disbursement_activities = <<>>
  /\ activity_files = <<>>
  /\ bucket = {}
  /\ env \in Environments

\* Write requests that are refused whoever sends them: no amount, no
\* description and no file; the tables hold no disbursement 1.
RefusedDisbursement == [amount |-> Undefined, description |-> Undefined]
RefusedActivity ==
  [activity_time |-> Undefined, description |-> Undefined, files |-> <<>>]

\* Logins, the clock, and the five admin endpoints under every header.
NextAuth ==
  \/ TickHours
  \/ \E password \in Passwords : handleAdminLogin(password)
  \/ \E password \in Passwords : Legacy_handleAdminLogin(password)
  \/ \E h \in AuthHeaders : handleGetDisbursements(h)
  \/ \E h \in AuthHeaders : handleCreateDisbursement(h, RefusedDisbursement)
  \/ \E h \in AuthHeaders : handleGetDisbursementActivities(h, 1)
  \/ \E h \in AuthHeaders :
       handleCreateDisbursementActivity(h, 1, RefusedActivity)
  \/ \E h \in AuthHeaders, random \in RandomSuffixes :
       handleFileUpload(h, NULL, random)

SpecAuth == InitAdmin /\ [][NextAuth]_vars

\* The times the clock of TickHours shows.
ClockPoints == {k * ClockStepHours * MsPerHour : k \in 0..MaxClockSteps}

\* The admin endpoints.
AdminEndpoints ==
  {GetAdminDisbursements, PostAdminDisbursements, GetActivities,
   PostActivities, PostUpload}

\* C13: a token minted by a login at time t is accepted by every admin
\* request made before t + 24 hours and refused by every one made after
\* t + 24 hours, and no request changes a stored session.
C13_TokenValidExactly24Hours ==
  [][/\ \A i \in DOMAIN admin_sessions : admin_sessions'[i] = admin_sessions[i]
     /\ \A i \in DOMAIN admin_sessions, t \in ClockPoints :
          (/\ last'.op \in AdminEndpoints
           /\ last'.request.auth = Bearer(admin_sessions[i].token)
           /\ admin_sessions[i].created_at = SqliteDatetime(t))
          => /\ now < t + MsPerDay => last'.status # 401
             /\ now > t + MsPerDay => last'.status = 401]_vars


\* The token of a header is stored and its 24 hours are over.
ExpiredToken(authHeader) ==
  /\ extractBearerToken(authHeader) # NULL
  /\ \E i \in DOMAIN admin_sessions, t \in ClockPoints :
       /\ admin_sessions[i].token = extractBearerToken(authHeader)
       /\ admin_sessions[i].created_at = SqliteDatetime(t)
       /\ now > t + MsPerDay

\* The token of a header is in no session row.
UnknownToken(authHeader) ==
  /\ extractBearerToken(authHeader) # NULL
  /\ \A i \in DOMAIN admin_sessions :
       admin_sessions[i].token # extractBearerToken(authHeader)

\* C14: on every admin endpoint a request without Authorization header,
\* with a header that is not a Bearer one, with an unknown token or with an
\* expired token is answered 401 with the one code and message of
\* Errors.UNAUTHORIZED.
C14_AuthFailuresIndistinguishable ==
  (/\ last.op \in AdminEndpoints
   /\ \/ last.request.auth = NULL
      \/ extractBearerToken(last.request.auth) = NULL
      \/ UnknownToken(last.request.auth)
      \/ ExpiredToken(last.request.auth))
  => /\ last.status = 401
     /\ last.body = [error |-> "UNAUTHORIZED",
                     message |-> "Unauthorized access"]


\* The password of a login request is present and is the configured secret.
CorrectPassword(password) ==
  /\ password.type = "string"
  /\ password.value # ""
  /\ password = env.ADMIN_PASSWORD_HASH

\* C15: a login inserts a session row exactly when its password is present
\* and equal to the configured secret; every other login is answered with
\* an error, 401 for a wrong password, and no other step changes
\* admin_sessions.
C15_SessionOnlyForCorrectPassword ==
  [][/\ admin_sessions' # admin_sessions => last'.op = PostLogin
     /\ last'.op = PostLogin
        => /\ admin_sessions' # admin_sessions
                <=> CorrectPassword(last'.request)
           /\ ~CorrectPassword(last'.request) => last'.status >= 400
           /\ (last'.request.type = "string" /\ last'.request.value # ""
               /\ ~CorrectPassword(last'.request)) => last'.status = 401]_vars


\* ------------------------------------------------------------------ feeds
MaxFeedRows == 29

\* Row i of a donations table as the feed's SELECT reads it: one row an
\* hour, every third donor anonymous, every second with a message, every
\* seventh donation not paid.
FeedNames == <<"Ann", "Budi", "Citra", "Dewi">>
FeedDonation(i) ==
  [id |-> i, name |-> FeedNames[1 + (i % 4)],
   email |-> <<"d">> \o ToDecimal(i) \o <<"@", "x", ".", "i", "d">>,
   phone |-> IF i % 2 = 0 THEN NULL ELSE <<"0", "8">> \o ToDecimal(i),
   amount |-> MinDonationAmount * i,
   message |-> IF i % 2 = 0 THEN <<"O", "K">> ELSE NULL,
   anonymous |-> IF i % 3 = 0 THEN 1 ELSE 0,
   status |-> IF i % 7 = 0 THEN "pending" ELSE "success",
   midtrans_order_id |-> OrderIdOf(i, 0),
   created_at |-> SqliteDatetime(i * MsPerHour)]

FeedDisbursement(i) ==
  [id |-> i, amount |-> Num(50000 * i),
   description |-> sanitizeHtml(<<"T", "a", "h", "a", "p", " ">> \o ToDecimal(i)),
   created_at |-> SqliteDatetime(i * MsPerHour)]

\* The activity and the file stored for disbursement 1.
FeedActivity ==
  [id |-> 1, disbursement_id |-> 1, activity_time |-> <<"2", "0", "2", "4">>,
   description |-> <<"x">>, created_at |-> SqliteDatetime(MsPerHour)]
FeedFile ==
  [id |-> 1, activity_id |-> 1, file_url |-> <<"h", "/", "a", ".", "p", "n", "g">>,
   file_name |-> <<"a", ".", "p", "n", "g">>, file_type |-> <<"i", "/", "p">>]

\* The table sizes tried: none, one, and every fourth size from there on.
FeedSizes == {n \in 0..MaxFeedRows : n = 0 \/ n % 4 = 1}

\* The tables hold n donations and n disbursements.
InitFeed ==
  \E n \in FeedSizes :
    /\ donations = [i \in 1..n |-> FeedDonation(i)]
    /\ disbursements = [i \in 1..n |-> FeedDisbursement(i)]
    /\ disbursement_activities = IF n = 0 THEN <<>> ELSE <<FeedActivity>>
    /\ activity_files = IF n = 0 THEN <<>> ELSE <<FeedFile>>
    /\ inflight = {}
    /\ gatewayCalls = <<>>
    /\ now = 0
    /\ stats = StatsIdle
    /\ last = Response("deploy", "none", 0)
    /\ admin_sessions = <<>>
    /\ bucket = {}
    /\ env = Configured

\* The texts sent as page and as limit; NULL is an absent parameter.
PageTexts ==
  {NULL, <<"0">>, <<"1">>, <<"3">>, <<"4">>, <<"-", "1">>, <<"2", "x">>}
LimitTexts ==
  {NULL, <<"0">>, <<" ", "7">>, <<"1", "0", "0">>, <<"1", "0", "1">>,
   <<"-", "5">>}

NextFeed ==
  \/ \E page \in PageTexts, limit \in LimitTexts :
       handleGetDonations(Query(page, limit))
  \/ \E page \in PageTexts, limit \in LimitTexts :
       handleGetDisbursementsPublic(Query(page, limit))

SpecFeed == InitFeed /\ [][NextFeed]_vars


\* The fields a donation of the feed may have.
PublicFields == {"amount", "created_at", "name", "message"}

\* A table that differs from rows only in the emails, the phones and the
\* names of the anonymous donations.
Scrambled(rows, email, phone, name) ==
  [i \in DOMAIN rows |->
     [rows[i] EXCEPT !.email = email, !.phone = phone,
                     !.name = IF rows[i].anonymous # 0 THEN name ELSE @]]

\* C16: the feed of GET /api/donations carries no email and no phone, shows
\* the placeholder "Donatur Anonim" for an anonymous donation and the stored
\* name for any other, and is the same for every table that differs only
\* in emails, phones and the names of anonymous donations.
C16_FeedIndependentOfPrivateData ==
  (last.op = GetDonations /\ last.status = 200)
  => /\ \A i \in DOMAIN last.body.donations :
          /\ DOMAIN last.body.donations[i] \subseteq PublicFields
          /\ \E k \in DOMAIN donations :
               /\ donations[k].status = "success"
               /\ donations[k].created_at = last.body.donations[i].created_at
               /\ donations[k].amount = last.body.donations[i].amount
               /\ last.body.donations[i].name =
                    IF donations[k].anonymous = 1 THEN "Donatur Anonim"
                    ELSE donations[k].name
     /\ \A phone \in {NULL, <<"0", "8", "1">>}, name \in {"Zed", "Ann"} :
          GetDonationsResponse(
            Scrambled(donations, <<"z", "@", "z", ".", "z">>, phone, name),
            last.request) = last

\* The feed shows both a placeholder and a stored name.
C16_Witness ==
  /\ last.op = GetDonations
  /\ last.status = 200
  /\ \E i, j \in DOMAIN last.body.donations :
       /\ last.body.donations[i].name = "Donatur Anonim"
       /\ last.body.donations[j].name = "Budi"
  /\ \E k \in DOMAIN donations :
       donations[k].anonymous = 1 /\ donations[k].phone # NULL


\* The rows a feed counts: the paid donations, all disbursements.
FeedTotal(op) ==
  IF op = GetDonations
    THEN Cardinality({k \in DOMAIN donations : donations[k].status = "success"})
  ELSE Len(disbursements)

\* C17: every accepted request of either feed is answered with total_pages
\* the least number of pages of limit rows that hold total_count rows,
\* has_next = (page < total_pages) and has_prev = (page > 1); with 25 rows
\* and limit 10 there are 3 pages, page 3 has a previous and no next page,
\* page 1 has no previous page.
C17_PaginationArithmetic ==
  (last.op \in {GetDonations, GetDisbursements} /\ last.status = 200)
  => /\ last.body.pagination.total_count = FeedTotal(last.op)
     /\ (last.body.pagination.total_pages - 1) * last.body.pagination.limit
          < last.body.pagination.total_count
     /\ last.body.pagination.total_count
          <= last.body.pagination.total_pages * last.body.pagination.limit
     /\ last.body.pagination.has_next
          = (last.body.pagination.page < last.body.pagination.total_pages)
     /\ last.body.pagination.has_prev = (last.body.pagination.page > 1)
     /\ (last.body.pagination.total_count = 25
         /\ last.body.pagination.limit = 10)
        => /\ last.body.pagination.total_pages = 3
           /\ last.body.pagination.page = 3
              => /\ ~last.body.pagination.has_next
                 /\ last.body.pagination.has_prev
           /\ last.body.pagination.page = 1
              => ~last.body.pagination.has_prev

\* Page 3 of 25 paid donations, ten a page.
C17_Witness ==
  /\ last.op = GetDonations
  /\ last.status = 200
  /\ last.body.pagination.total_count = 25
  /\ last.body.pagination.limit = 10
  /\ last.body.pagination.page = 3
  /\ Len(last.body.donations) = 5


\* The rows of a feed response, and the stored rows the feed selects from.
FeedRows(response) ==
  IF response.op = GetDonations THEN response.body.donations
  ELSE response.body.disbursements
FeedSource(op) ==
  IF op = GetDonations
    THEN SelectSeq(donations, LAMBDA r : r.status = "success")
  ELSE disbursements

\* The number of selected rows created later than the one created at text.
Later(op, text) ==
  Cardinality({k \in DOMAIN FeedSource(op) :
                 TextGreater(FeedSource(op)[k].created_at, text)})

\* The answer is the page of at most limit rows at offset (page - 1) * limit
\* of the selected rows, latest first.
IsPage(response, page, limit) ==
  /\ response.status = 200
  /\ response.body.pagination.page = page
  /\ response.body.pagination.limit = limit
  /\ \A i \in DOMAIN FeedRows(response) :
       Later(response.op, FeedRows(response)[i].created_at)
         = (page - 1) * limit + i - 1
  /\ \/ Len(FeedRows(response)) = limit
     \/ (page - 1) * limit + Len(FeedRows(response))
          = Len(FeedSource(response.op))
     \/ /\ Len(FeedRows(response)) = 0
        /\ (page - 1) * limit >= Len(FeedSource(response.op))

\* C18 as stated: an absent page is 1 and an absent limit 10; whatever
\* limit is requested, a request for a page >= 1 is served with a limit
\* clamped to 1..100, and its rows are the at most limit rows at offset
\* (page - 1) * limit of the ordered result.
C18_LimitClamped ==
  (last.op \in {GetDonations, GetDisbursements}
   /\ ParseOr(last.request.page, DefaultPage) >= 1)
  => /\ last.status = 200
     /\ last.body.pagination.limit \in 1..MaxLimit
     /\ last.request.page = NULL => last.body.pagination.page = DefaultPage
     /\ last.request.limit = NULL => last.body.pagination.limit = DefaultLimit
     /\ IsPage(last, ParseOr(last.request.page, DefaultPage),
               last.body.pagination.limit)

\* C18, amended: page and limit are parseInt of the parameter, 1 and 10 when
\* that is NaN or 0 (an absent parameter among them); a page below 1 or a
\* limit outside 1..100 is refused with 400 VALIDATION_ERROR that reports
\* both values and carries no rows; every other request is served with
\* exactly that page and limit, the limit in 1..100, and its rows are the
\* at most limit rows at offset (page - 1) * limit of the ordered result.
C18_LimitValidated ==
  last.op \in {GetDonations, GetDisbursements}
  => LET page == ParseOr(last.request.page, DefaultPage)
         limit == ParseOr(last.request.limit, DefaultLimit)
     IN /\ last.request.page = NULL => page = DefaultPage
        /\ last.request.limit = NULL => limit = DefaultLimit
        /\ IF page < 1 \/ limit < 1 \/ limit > MaxLimit
             THEN /\ last.status = 400
                  /\ last.body.error = "VALIDATION_ERROR"
                  /\ last.body.details = [page |-> page, limit |-> limit]
                  /\ DOMAIN last.body = {"error", "message", "details"}
           ELSE /\ limit \in 1..MaxLimit
                /\ IsPage(last, page, limit)

\* Page 3 of the donations feed, seven a page, and it is full.
C18_Witness ==
  /\ last.op = GetDonations
  /\ last.status = 200
  /\ last.request = Query(<<"3">>, <<" ", "7">>)
  /\ Len(last.body.donations) = 7
  /\ Len(FeedSource(GetDonations)) > 21


\* ------------------------------------------------------------- entry point
MaxRouterRows == 2

\* The session a login at time 0 stores.
StoredSession ==
  InsertSession(<<>>, RandomUUID(<<>>), toISOString(MsPerDay), 0)

InitRouter ==
  \E n \in 0..MaxRouterRows :
    /\ donations = [i \in 1..n |-> FeedDonation(i)]
    /\ disbursements = [i \in 1..n |-> FeedDisbursement(i)]
    /\ disbursement_activities = IF n = 0 THEN <<>> ELSE <<FeedActivity>>
    /\ activity_files = IF n = 0 THEN <<>> ELSE <<FeedFile>>
    /\ inflight = {}
    /\ gatewayCalls = <<>>
    /\ now = 0
    /\ stats = StatsIdle
    /\ last = Response("deploy", "none", 0)
    /\ admin_sessions \in {<<>>, StoredSession}
    /\ bucket = {}
    /\ env = Configured

NextRouter ==
  \E req \in ReadRequests, requestId \in RequestIds : onRequest(req, requestId)

SpecRouter == InitRouter /\ [][NextRouter]_vars

\* C19: every response of the entry point carries the request id in the
\* header X-Request-ID; an object body is returned with one more field,
\* request_id, equal to the header; an array body (the admin disbursement
\* list, the activity list) is returned as the same array.
C19_ArrayBodiesUntouched ==
  [][\A req \in ReadRequests, requestId \in RequestIds :
       onRequest(req, requestId)
       => /\ last'.headers = [XRequestID |-> requestId]
          /\ IF IsArray(HandlerResponse(req).body)
               THEN last'.body = HandlerResponse(req).body
             ELSE /\ DOMAIN last'.body
                       = DOMAIN HandlerResponse(req).body \cup {"request_id"}
                  /\ last'.body.request_id = requestId
                  /\ \A k \in DOMAIN HandlerResponse(req).body :
                       last'.body[k] = HandlerResponse(req).body[k]]_vars


\* --------------------------------------------------------------- admin writes
\* The headers of the write requests: none, and the stored token.
WriteHeaders == {NULL, Bearer(<<"uuid-", "1">>)}

InitWrite ==
  /\ donations = <<>>
  /\ disbursements = <<>>
  /\ inflight = {}
  /\ gatewayCalls = <<>>
  /\ now = 0
  /\ stats = StatsIdle
  /\ last = Response("deploy", "none", 0)
  /\ admin_sessions = StoredSession
  /\ disbursement_activities = <<>>
  /\ activity_files = <<>>
  /\ bucket = {}
  /\ env \in {Configured, NoBucket}

NextWrite ==
  \/ \E h \in WriteHeaders, body \in DisbursementBodies :
       handleCreateDisbursement(h, body)
  \/ \E h \in WriteHeaders, id \in {1, 3}, body \in ActivityBodies :
       handleCreateDisbursementActivity(h, id, body)
  \/ \E h \in WriteHeaders, file \in Uploads, random \in RandomSuffixes :
       handleFileUpload(h, file, random)

SpecWrite == InitWrite /\ [][NextWrite]_vars

\* The write endpoints of the admin.
WriteEndpoints == {PostAdminDisbursements, PostActivities, PostUpload}

\* C20: an admin write request answered 401, 400 or 404 leaves the
\* disbursements, the activities, the file rows and the bucket as they were;
\* a request without a valid token is answered 401, an activity for a
\* disbursement that does not exist 404, a file over 10 MB or of a type off
\* the allow-list 400.
C20_RejectedWriteChangesNothing ==
  [][last'.op \in WriteEndpoints
     => /\ last'.status \in {400, 401, 404}
           => UNCHANGED <<disbursements, disbursement_activities,
                          activity_files, bucket>>
        /\ ~requireAdminAuth(last'.request.auth, admin_sessions, now)
           => last'.status = 401
        /\ (/\ requireAdminAuth(last'.request.auth, admin_sessions, now)
            /\ last'.op = PostActivities
            /\ disbursements = <<>>)
           => last'.status = 404
        /\ (/\ requireAdminAuth(last'.request.auth, admin_sessions, now)
            /\ last'.op = PostUpload
            /\ last'.request.input # NULL
            /\ \/ last'.request.input.size > MaxUploadSize
               \/ last'.request.input.type \notin AllowedTypes)
           => last'.status = 400]_vars

\* A disbursement is stored, and a request with the valid token and no
\* description has been refused.
C20_Witness ==
  /\ last.op = PostAdminDisbursements
  /\ last.status = 400
  /\ last.request.auth = Bearer(<<"uuid-", "1">>)
  /\ last.request.input.amount = Num(50000)
  /\ Len(disbursements) = 1
  /\ disbursement_activities # <<>>


\* ------------------------------------------- concurrent submissions, webhooks
\* The notifications a gateway sends about an order id the submission
\* handler can compute: a payment or an expiry, accepted or challenged.
RaceNotifications ==
  {n \in [order_id : {OrderIdOf(i, t) : i \in 1..MaxDonations, t \in 0..MaxTime},
          transaction_status : {"settlement", "expire"},
          fraud_status : {"accept", "challenge"}] :
     n.fraud_status = "challenge" => n.transaction_status = "settlement"}

\* One valid and one invalid submission body.
RaceBodies ==
  { Body("Ann", GoodEmail, NULL, Num(MinDonationAmount), FALSE),
    Body("Ann", GoodEmail, NULL, Num(MinDonationAmount - 1), FALSE) }

\* Submissions run concurrently with each other and with the webhook: every
\* await of the submission handler is a point where another request runs.
\* The notifications are about the order id a stored donation has, or the
\* one it gets when its order-id step runs now.  The clock is read by the order-id step alone: it advances
\* while a submission is about to read it.
NextRace ==
  \/ /\ \E r \in inflight : r.pc = "order"
     /\ Tick
  \/ \E body \in RaceBodies : Legacy_handleCreateDonation(body)
  \/ \E r \in inflight : Legacy_attachOrderId(r)
  \/ \E r \in inflight, outcome \in GatewayOutcomes :
       Legacy_createMidtransTransaction(r, outcome)
  \/ \E r \in inflight : Legacy_markFailed(r)
  \/ \E req \in RaceNotifications :
       /\ \E i \in DOMAIN donations :
            \/ donations[i].midtrans_order_id = req.order_id
            \/ /\ donations[i].midtrans_order_id = NULL
               /\ req.order_id = OrderIdOf(i, now)
       /\ handleMidtransWebhook(req)

SpecRace == Init /\ [][NextRace]_vars


\* C21: no two donation rows hold the same non-null order id, also when their
\* submissions run concurrently and attach the order id in the same
\* millisecond; so the order_id of a notification matches at most one row.
C21_OrderIdsUnique ==
  /\ \A i, j \in DOMAIN donations :
       (i # j /\ donations[i].midtrans_order_id # NULL)
         => donations[i].midtrans_order_id # donations[j].midtrans_order_id
  /\ \A n \in RaceNotifications : Cardinality(Matched(donations, n)) <= 1

\* Two submissions in flight together, their order ids attached in the same
\* millisecond.
C21_Witness ==
  /\ Len(donations) >= 2
  /\ donations[1].midtrans_order_id = OrderIdOf(1, now)
  /\ donations[2].midtrans_order_id = OrderIdOf(2, now)
  /\ \A i \in {1, 2} : \E r \in inflight : r.id = i /\ r.pc = "fetch"


\* C22: while a donation's row is inserted and its order id X is not yet
\* written, an accepted notification about X changes no donation and is
\* answered 200, and the donation is still pending once X is attached.
C22_RaceWindow ==
  [][\A r \in inflight : r.pc = "order" =>
       /\ \A req \in RaceNotifications :
            (/\ req.fraud_status = "accept"
             /\ \E t \in now..MaxTime : req.order_id = OrderIdOf(r.id, t))
              => WebhookUpdate(donations, req) = donations
       /\ last'.op = PostNotification
            => last'.status = 200 /\ donations'[r.id] = donations[r.id]
       /\ donations'[r.id].midtrans_order_id # NULL
            => donations'[r.id].status = "pending"]_vars

\* The only donation is in the window and a settlement notification about
\* the order id it is going to get has just been answered.
C22_Witness ==
  /\ Len(donations) = 1
  /\ donations[1].midtrans_order_id = NULL
  /\ donations[1].status = "pending"
  /\ \E r \in inflight : r.id = 1 /\ r.pc = "order"
  /\ last.op = PostNotification
  /\ last.status = 200
  /\ last.log = "Payment successful"


\* C23: disbursements are append-only: no operation changes or deletes a
\* stored disbursement, every create answered with success adds exactly one
\* row, whose amount is positive, and so the total_disbursed that GET
\* /api/stats computes never decreases.
C23_DisbursementsAppendOnly ==
  [][/\ Len(disbursements') >= Len(disbursements)
     /\ SubSeq(disbursements', 1, Len(disbursements)) = disbursements
     /\ (last'.op = PostAdminDisbursements /\ last'.status = 200)
          => /\ Len(disbursements') = Len(disbursements) + 1
             /\ disbursements'[Len(disbursements')].amount.type = "number"
             /\ disbursements'[Len(disbursements')].amount.value > 0
     /\ SumDisbursed(disbursements') >= SumDisbursed(disbursements)]_vars


\* The requests sent to the gateway about an order id.
CallsFor(orderId) ==
  {k \in DOMAIN gatewayCalls : gatewayCalls[k].order_id = orderId}

\* Where every submission in flight stands, and what the gateway was asked.
SubmissionSteps ==
  /\ \A r \in inflight :
       /\ r.id \in DOMAIN donations
       /\ r.pc = "order" =>
            /\ donations[r.id].midtrans_order_id = NULL
            /\ donations[r.id].status = "pending"
            /\ \A t \in 0..MaxTime : CallsFor(OrderIdOf(r.id, t)) = {}
       /\ r.pc = "fetch" =>
            /\ r.orderId # NULL
            /\ donations[r.id].midtrans_order_id = r.orderId
            /\ CallsFor(r.orderId) = {}
       /\ r.pc = "failed" =>
            /\ donations[r.id].midtrans_order_id = r.orderId
            /\ Cardinality(CallsFor(r.orderId)) = 1
  /\ \A k \in DOMAIN gatewayCalls :
       /\ Cardinality(CallsFor(gatewayCalls[k].order_id)) = 1
       /\ \E i \in DOMAIN donations :
            /\ donations[i].midtrans_order_id = gatewayCalls[k].order_id
            /\ donations[i].amount >= MinDonationAmount

\* C24: a valid submission inserts the pending row, writes the order id onto
\* it, calls the gateway, writes status failed only when the adapter failed,
\* and then responds; the gateway is called at most once per submission,
\* never before the order id is on the row, never for an invalid submission.
C24_SubmissionStepOrder ==
  [][/\ SubmissionSteps'
     /\ gatewayCalls' # gatewayCalls =>
          /\ Len(gatewayCalls') = Len(gatewayCalls) + 1
          /\ \E i \in DOMAIN donations :
               donations[i].midtrans_order_id
                 = gatewayCalls'[Len(gatewayCalls')].order_id
          /\ donations' = donations
     /\ (last'.op = PostDonations /\ last'.status = 400) =>
          UNCHANGED <<donations, gatewayCalls, inflight>>
     /\ (last'.op = PostDonations /\ last'.status = 200) =>
          /\ gatewayCalls' # gatewayCalls
          /\ Cardinality(inflight') < Cardinality(inflight)
     /\ (last'.op = PostDonations /\ last'.status = 500) =>
          \E r \in inflight \ inflight' :
            /\ CallsFor(r.orderId) # {}
            /\ donations'[r.id].status = "failed"
     /\ \A i \in DOMAIN donations :
          (last'.op = PostDonations /\ donations'[i].status # donations[i].status)
            => /\ donations'[i].status = "failed"
               /\ CallsFor(donations[i].midtrans_order_id) # {}
               /\ last'.status = 500]_vars

\* A submission that went through every step: the row has its order id, the
\* gateway was asked once and gave no token, the row was written failed and
\* the 500 was sent.
C24_Witness ==
  /\ last.op = PostDonations
  /\ last.status = 500
  /\ inflight = {}
  /\ Len(donations) = 1
  /\ donations[1].midtrans_order_id # NULL
  /\ donations[1].status = "failed"
  /\ Cardinality(CallsFor(donations[1].midtrans_order_id)) = 1


\* ----------------------------------------- the free text of a submission
\* const sanitizedName = sanitizeText(data.name, 255)
sanitizedName(data) == sanitizeText(data.name, MaxTextLength)

\* const sanitizedMessage = data.message ? sanitizeHtml(data.message) : null
\* (NULL is the absent and the empty message)
sanitizedMessage(data) ==
  IF data.message = NULL THEN NULL ELSE sanitizeHtml(data.message)

\* Donor names and messages: plain, with markup, with special characters,
\* with a control character, padded, and one character over the cap.
SubmittedNames ==
  { <<"A", "n", "n">>, <<"B", "u", "d", "i">>,
    <<"<", "b", ">", "A", "n", "n">>, <<"A", "&", "B">>,
    <<"\"", "A", "\"">>, <<"'", "A", "'">>, <<"A", "\f", "B">>,
    <<" ", "A", "n", "n", " ">>, Chars(MaxTextLength + 1, "a") }
SubmittedMessages ==
  { NULL, <<"h", "i">>, <<" ", "h", "i", "\n">>, <<"<", "b", ">", "A", "&", "B">>,
    <<"a", "<", "b">>, <<"x", ">", "'", "\"", "/">>,
    <<"<", "i", ">", "x", "<", "/", "i", ">">> }
TextBodies == [name : SubmittedNames, message : SubmittedMessages]

\* A submission has arrived.
InitSanitize ==
  /\ donations = <<>>
  /\ disbursements = <<>>
  /\ inflight = {}
  /\ gatewayCalls = <<>>
  /\ now = 0
  /\ stats = StatsIdle
  /\ last \in {Answering(Await(PostDonations, "routes"), data) :
                 data \in TextBodies}
  /\ admin_sessions = <<>>
  /\ disbursement_activities = <<>>
  /\ activity_files = <<>>
  /\ bucket = {}
  /\ env = Configured

\* "Sanitize inputs": the values the handler binds to the INSERT; last.body
\* keeps them.
SanitizeInputs ==
  /\ last.body = NULL
  /\ last' = Json(last, [name |-> sanitizedName(last.request),
                         message |-> sanitizedMessage(last.request)])
  /\ UNCHANGED <<adminVars, donations, disbursements, inflight, gatewayCalls,
                 now, stats>>

SpecSanitize == InitSanitize /\ [][SanitizeInputs]_vars

\* The entities htmlEscapes writes.
Entities == {HtmlEscape(c) : c \in {"&", "<", ">", "\"", "'", "/"}}

\* No raw <, >, " or ' in s, and every & of s starts an entity.
IsHtmlEscaped(s) ==
  \A i \in DOMAIN s :
    /\ s[i] \notin {"<", ">", "\"", "'"}
    /\ s[i] = "&" =>
         \E e \in Entities :
           i + Len(e) - 1 <= Len(s) /\ SubSeq(s, i, i + Len(e) - 1) = e

\* C25: the donor name handleCreateDonation persists has no control
\* character, is HTML-escaped and has at most 255 characters; the message it
\* persists has no HTML tag, is HTML-escaped and has at most 5000 characters.
C25_PersistedTextSanitized ==
  last.body # NULL =>
    /\ \A i \in DOMAIN last.body.name : last.body.name[i] \notin ControlChars
    /\ IsHtmlEscaped(last.body.name)
    /\ Len(last.body.name) <= MaxTextLength
    /\ last.body.message # NULL =>
         /\ IsHtmlEscaped(last.body.message)
         /\ Len(last.body.message) <= MaxHtmlLength


\* The notifications that report a payment of the order id.
PaidNotifications(orderId) ==
  [order_id : {orderId}, transaction_status : {"capture", "settlement"},
   fraud_status : {"accept"}]

\* C26: a donation with status success has an order id, and got the status
\* from a notification with fraud_status "accept" and transaction_status
\* "capture" or "settlement" that carried this order id; no other operation
\* sets a status to success, and an order id once written stays.
C26_SuccessOnlyFromAcceptedNotification ==
  [][\A i \in DOMAIN donations' :
       /\ donations'[i].status = "success" =>
            /\ donations'[i].midtrans_order_id # NULL
            /\ i \in DOMAIN donations
            /\ donations[i].midtrans_order_id = donations'[i].midtrans_order_id
            /\ donations[i].status # "success" =>
                 /\ last'.op = PostNotification
                 /\ last'.log = "Payment successful"
                 /\ \E n \in PaidNotifications(donations[i].midtrans_order_id) :
                      donations' = WebhookUpdate(donations, n)
       /\ (i \in DOMAIN donations /\ donations[i].midtrans_order_id # NULL)
            => donations'[i].midtrans_order_id = donations[i].midtrans_order_id
    ]_vars

\* A donation a settlement notification has just set to success.
C26_Witness ==
  /\ last.op = PostNotification
  /\ last.log = "Payment successful"
  /\ \E i \in DOMAIN donations :
       /\ donations[i].status = "success"
       /\ donations[i].midtrans_order_id # NULL


\* C27: once a webhook has set a donation to success, no step of the
\* submission handler changes its status: the write after an adapter failure
\* does not overwrite a success set between the order-id write and itself.
C27_FailureWriteKeepsSuccess ==
  [][\A i \in DOMAIN donations :
       (donations[i].status = "success" /\ last'.op = PostDonations)
         => donations'[i].status = "success"]_vars


\* The donations tables that hold the given rows in any statuses: every
\* state the table can be in while notifications are processed.
WithAnyStatuses(rows) ==
  {[i \in DOMAIN rows |-> [rows[i] EXCEPT !.status = f[i]]] :
     f \in [DOMAIN rows -> {"pending", "success", "failed"}]}

\* C28: the values of a GET /api/stats response are those of one state of the
\* donations and disbursements tables, also when notifications are processed
\* between the handler's queries; in particular a donor_count of 0 comes with
\* a total_raised of 0.
C28_StatsIsSnapshot ==
  [][(stats.pc = "count" /\ stats'.pc = "idle") =>
       /\ stats'.donor_count = 0 => stats'.total_raised = 0
       /\ \E rows \in WithAnyStatuses(donations'),
             k \in 0..Len(disbursements') :
            /\ stats'.total_raised = SumAmount(rows, "success")
            /\ stats'.donor_count = CountStatus(rows, "success")
            /\ stats'.total_disbursed
                 = SumDisbursed(SubSeq(disbursements', 1, k))]_vars


\* ------------------------------------------- the feed while payments settle
MaxLiveRows == 3

\* Tables of up to MaxLiveRows donations, each awaiting payment or paid.
InitLive ==
  \E n \in 0..MaxLiveRows, f \in [1..MaxLiveRows -> {"pending", "success"}] :
    /\ donations = [i \in 1..n |-> [FeedDonation(i) EXCEPT !.status = f[i]]]
    /\ disbursements = <<>>
    /\ disbursement_activities = <<>>
    /\ activity_files = <<>>
    /\ inflight = {}
    /\ gatewayCalls = <<>>
    /\ now = 0
    /\ stats = StatsIdle
    /\ last = Response("deploy", "none", 0)
    /\ admin_sessions = <<>>
    /\ bucket = {}
    /\ env = Configured

\* Requests of both feeds, with notifications about the stored donations
\* processed between them.
NextLive ==
  \/ \E limit \in {NULL, <<"1">>} : handleGetDonations(Query(NULL, limit))
  \/ Legacy_handleGetDonations
  \/ \E req \in NotificationsFor(donations, {"settlement", "expire"},
                                 {"accept"}) :
       handleMidtransWebhook(req)

SpecLive == InitLive /\ [][NextLive]_vars

\* The donations a feed response lists.
Listed(response) ==
  IF response.impl = "legacy" THEN response.body.items
  ELSE response.body.donations

C30_ActivityAllOrNothing ==
  [][last'.op = PostActivities =>
       IF last'.status = 200
         THEN /\ Len(disbursement_activities')
                   = Len(disbursement_activities) + 1
              /\ Len(activity_files')
                   = Len(activity_files) + Len(last'.request.input.files)
       ELSE UNCHANGED <<disbursement_activities, activity_files>>]_vars

====
